---------------------------- MODULE Spec2Model ----------------------------
(* Hotel search aggregation service: the token-bucket rate limiter          *)
(* (internal/search/ratelimit), the TTL cache with single-flight            *)
(* (internal/search/cache), the fan-out aggregator (internal/search) and    *)
(* the request handler that chains them (internal/handler).                 *)
(*                                                                          *)
(* Time is a discrete monotonic clock `now`; durations are counted in ticks *)
(* of it.  Every critical section (a region between Lock and Unlock of one  *)
(* mutex) is one action.                                                    *)
EXTENDS Integers, Sequences, FiniteSets, TLC

\* ------------------------------------------------------------------ bounds
\* the last tick of the clock when the limiter is exercised on its own
MaxTime == 5
\* the last tick of the clock when the cache and the pipeline are exercised
MaxCacheTime == 2
\* the number of Allow calls made on the limiter exercised on its own
MaxCalls == 5
\* the number of goroutines that call GetOrFetch
NReqs == 3
\* the number of /search requests the pipeline receives
MaxAdmit == 2
\* the number of Allow calls made on a limiter that is closed in the end
MaxLifeCalls == 2

\* ------------------------------------------------------- configuration
\* cache.NewCache(30s): the time to live of an entry; one tick of the clock
\* stands for it
TTL == 1
\* search.NewAggregator(.., 2s, ..): the deadline of a fan-out, scaled to a tick
Timeout == 1
\* ratelimit.New(10, time.Minute): rate and window of the application's
\* limiter, scaled down to one request per window of two ticks
AppRate == 1
AppWindow == 2

\* rates and windows ratelimit.New is exercised with
Rates == {-1, 0, 1, 2}
Windows == {1, 2}

\* client identities (limiter keys), cache keys, providers, requests
Clients == {"10.0.0.1", "10.0.0.2"}
Keys == {"k1", "k2"}
Providers == {"p1", "p2"}
Reqs == 1..NReqs
Times == 0..MaxTime

\* the two objects that start a cleanup goroutine when they are constructed
Components == {"cache", "limiter"}

\* a nil *search.Result and a nil error
Nil == 0
NoErr == "nil"

VARIABLES
    now,        \* the monotonic clock (time.Now)
    \* ---- ratelimit.Limiter
    rate,       \* Limiter.rate
    window,     \* Limiter.window
    buckets,    \* Limiter.buckets: key -> [tokens, lastReset]
    calls,      \* history: calls[k][t] = number of Allow(k) calls made at time t
    grants,     \* history: grants[k][t] = number of those that returned true
    last,       \* history: the latest Allow call [key, at, ok, refilled, seq]
    \* ---- cache.Cache
    entries,    \* Cache.entries: key -> [result, expiresAt]
    inflight,   \* Cache.inflight: key -> inflightRequest (an index of recs)
    recs,       \* the inflightRequest records ever allocated: [done, result, err]
    resolved,   \* history: key -> [result, at] of its last successful fetch,
                \*          dropped by Invalidate and Clear
    cmu,        \* Cache.mu: 0 when free, else the goroutine that holds it
    purged,     \* history: the in-flight records whose key was invalidated, or
                \*          the cache cleared, while they were in flight
    \* ---- one goroutine per request / per GetOrFetch call
    pc,         \* where the goroutine is
    key,        \* the key it passes to GetOrFetch
    ctx,        \* its context: "live" or "canceled"
    role,       \* what GetOrFetch made of it: "hit", "leader", "waiter", or
                \*   "gaveup" for a waiter that returned on ctx.Done()
    myrec,      \* the inflightRequest it holds (0: none)
    fres,       \* the leader's locals result, err after fetch()
    ret,        \* what GetOrFetch returned: [result, hit, err]
    seen,       \* history: what `resolved` said of its key when it locked
    \* ---- handler.SearchHandler and search.Aggregator.Search
    client,     \* the request's client identity (ExtractIP)
    resp,       \* the response written: [status, error, cache]
    fan,        \* the provider goroutines of the fan-out a request leads
    agg,        \* Search's locals: [succeeded, failed, errors, deadline]
    heap,       \* the search.Result values allocated, by pointer
    metrics,    \* obs.Metrics: [requests, cacheHits, providerErrors]
    \* ---- goroutines inside Limiter.Allow
    mu,         \* Limiter.mu: 0 when free, else the goroutine that holds it
    acall,      \* per goroutine, its call of Allow: [pc, key, t, hasToken, ok]
    \* ---- one call of search.Aggregator.Search, with the hotels it handles
    spc,        \* where Search is: "idle", "fanout", "done"
    sctx,       \* the parent context passed to Search: "live" or "canceled"
    deadline,   \* when the context derived by WithTimeout expires
    prov,       \* per provider: [status, calls, rows, err] of its goroutine
    hotelMap,   \* Search's local hotelMap: HotelID -> Hotel
    succeeded,  \* Search's local succeeded
    failed,     \* Search's local failed
    errors,     \* Search's local errors
    sret,       \* what Search returned: [result, err]
    merged,     \* history: the normalized hotels in the order they were merged
    cancelRunning,  \* history: the providers that had not returned when the parent
                    \*          context was canceled during the fan-out
    \* ---- the request front of SearchHandler, on the text of the request
    hreq,       \* the request being handled: its headers, peer address and query
    hprev,      \* history: the request handled before it, and its outcome
    hout,       \* what the front made of it: [ip, status, error, params, stage]
    hcount,     \* the number of requests handled
    \* ---- Cache.Key on pairs of validated queries
    kin,        \* the two queries
    kout,       \* their keys
    \* ---- the cleanup goroutines of the cache and of the limiter
    closed,     \* per component, whether Close has closed its done channel
    sweeper     \* per component, its cleanup goroutine: "running" or "stopped"

limiterVars == <<rate, window, buckets, calls, grants, last>>
cacheVars == <<entries, inflight, recs, resolved, cmu, purged>>
reqVars == <<pc, key, ctx, role, myrec, fres, ret, seen>>
pipeVars == <<client, resp, fan, agg, heap, metrics>>
allowVars == <<mu, acall>>
searchVars == <<spc, sctx, deadline, prov, hotelMap, succeeded, failed, errors, sret,
                merged, cancelRunning>>
frontVars == <<hreq, hprev, hout, hcount, kin, kout>>
lifeVars == <<closed, sweeper>>
vars == <<now, limiterVars, cacheVars, reqVars, pipeVars, allowVars, searchVars, frontVars,
          lifeVars>>

\* ------------------------------------------------------------- helpers
Max(a, b) == IF a >= b THEN a ELSE b
Min(a, b) == IF a <= b THEN a ELSE b

RECURSIVE SumOver(_, _)
SumOver(f, S) ==
    IF S = {} THEN 0
    ELSE LET x == CHOOSE y \in S : TRUE IN f[x] + SumOver(f, S \ {x})

\* Go map operations on a function whose DOMAIN is the set of present keys
Put(m, k, v) == [x \in DOMAIN m \cup {k} |-> IF x = k THEN v ELSE m[x]]
Delete(m, k) == [x \in DOMAIN m \ {k} |-> m[x]]
EmptyMap == [x \in {} |-> 0]

\* the clock advances
Tick(max) ==
    /\ now < max
    /\ now' = now + 1
    /\ UNCHANGED <<limiterVars, cacheVars, reqVars>>

\* ======================================================== rate limiter
NoCall == [key |-> "", at |-> 0, ok |-> FALSE, refilled |-> FALSE, seq |-> 0]

\* mutation: a bucket filled with one token too many
NewBucketExtraToken(r, t) == [tokens |-> r + 1, lastReset |-> t]

\* a bucket as Allow creates it and as a reset leaves it
NewBucket(r, t) == [tokens |-> r, lastReset |-> t]

\* mutation: the window test made strict
WindowPassedStrict(t, lastReset, w) == t - lastReset > w

\* now.Sub(b.lastReset) >= l.window
WindowPassed(t, lastReset, w) == t - lastReset >= w

\* mutation: the token test admits an empty bucket
HasTokenOrEmpty(tokens) == tokens >= 0

\* mutation: the token test taken as "non-zero"
HasTokenNonZero(tokens) == tokens # 0

\* b.tokens > 0
HasToken(tokens) == tokens > 0

\* mutation: a sweeper that takes every bucket for stale
StaleAlways(t, lastReset, w) == t - lastReset >= 0

\* now.Sub(b.lastReset) > 2*l.window
Stale(t, lastReset, w) == t - lastReset > 2 * w

TotalCalls == SumOver([k \in Clients |-> SumOver(calls[k], Times)], Clients)

\* The bucket of key k after "get or create" and "reset if window has passed"
Refreshed(k) ==
    LET b == IF k \in DOMAIN buckets THEN buckets[k] ELSE NewBucket(rate, now)
    IN  IF WindowPassed(now, b.lastReset, window) THEN NewBucket(rate, now) ELSE b

\* Whether Allow(k) starts a new window: it creates the bucket or resets it
Refills(k) ==
    \/ k \notin DOMAIN buckets
    \/ WindowPassed(now, buckets[k].lastReset, window)

\* What Limiter.Allow(key) returns
AllowResult(k) == HasToken(Refreshed(k).tokens)

\* mutation: one bucket shared by all keys
AllowBucketsShared(k) ==
    LET b == Refreshed(k)
        nb == IF HasToken(b.tokens) THEN [b EXCEPT !.tokens = @ - 1] ELSE b
    IN  [x \in DOMAIN buckets \cup {k} |-> nb]

\* mutation: an Allow that hands out tokens without taking them
AllowBucketsKeepsToken(k) == Put(buckets, k, Refreshed(k))

\* The bucket map Limiter.Allow(key) leaves
AllowBuckets(k) ==
    LET b == Refreshed(k)
    IN  Put(buckets, k, IF HasToken(b.tokens) THEN [b EXCEPT !.tokens = @ - 1] ELSE b)

\* Limiter.Allow(key), under l.mu, called on its own
Allow(k) ==
    /\ TotalCalls < MaxCalls
    /\ buckets' = AllowBuckets(k)
    /\ calls' = [calls EXCEPT ![k][now] = @ + 1]
    /\ grants' = [grants EXCEPT ![k][now] = @ + (IF AllowResult(k) THEN 1 ELSE 0)]
    /\ last' = [key |-> k, at |-> now, ok |-> AllowResult(k), refilled |-> Refills(k),
                seq |-> last.seq + 1]
    /\ UNCHANGED <<now, rate, window, cacheVars, reqVars, pipeVars>>

\* One pass of Limiter.cleanup's ticker case, under l.mu
LimiterSweep ==
    /\ sweeper["limiter"] = "running"
    /\ buckets' = [k \in {x \in DOMAIN buckets :
                            ~Stale(now, buckets[x].lastReset, window)} |-> buckets[k]]
    /\ UNCHANGED <<now, rate, window, calls, grants, last, cacheVars, reqVars, pipeVars>>

\* ratelimit.New(r, w)
LimiterNew(r, w) ==
    /\ rate = r
    /\ window = w
    /\ buckets = EmptyMap
    /\ calls = [k \in Clients |-> [t \in Times |-> 0]]
    /\ grants = [k \in Clients |-> [t \in Times |-> 0]]
    /\ last = NoCall

\* cache.NewCache(ttl)
CacheNew ==
    /\ entries = EmptyMap
    /\ inflight = EmptyMap
    /\ recs = <<>>
    /\ resolved = EmptyMap
    /\ cmu = 0
    /\ purged = {}

NoRet == [result |-> Nil, hit |-> FALSE, err |-> NoErr]
NoResp == [status |-> 0, error |-> "", cache |-> ""]
NoAgg == [succeeded |-> 0, failed |-> 0, errors |-> <<>>, deadline |-> 0]

\* a provider goroutine that Search has not started
NoProv == [status |-> "idle", calls |-> 0, rows |-> <<>>, err |-> NoErr]

\* a nil *types.Result
NilResult == [isNil |-> TRUE, Hotels |-> <<>>, ProvidersTotal |-> 0,
              ProvidersSucceeded |-> 0, ProvidersFailed |-> 0]

\* a goroutine that has not called Allow
NoAllow == [pc |-> "idle", key |-> "", t |-> 0, hasToken |-> FALSE, ok |-> FALSE]

\* no request has arrived yet
\* no request, and nothing made of it
NoRequest == [xff |-> <<>>, xri |-> <<>>, remote |-> <<>>,
              city |-> <<>>, checkin |-> <<>>, nights |-> <<>>, adults |-> <<>>]
NoFront == [ip |-> <<>>, status |-> 0, error |-> "", stage |-> "idle",
            params |-> [City |-> <<>>, Checkin |-> <<>>, Nights |-> 0, Adults |-> 0]]

ReqInit ==
    /\ pc = [g \in Reqs |-> "idle"]
    /\ key = [g \in Reqs |-> ""]
    /\ ctx = [g \in Reqs |-> "live"]
    /\ role = [g \in Reqs |-> "none"]
    /\ myrec = [g \in Reqs |-> 0]
    /\ fres = [g \in Reqs |-> [result |-> Nil, err |-> NoErr]]
    /\ ret = [g \in Reqs |-> NoRet]
    /\ seen = [g \in Reqs |-> [valid |-> FALSE, result |-> Nil]]
    /\ client = [g \in Reqs |-> ""]
    /\ resp = [g \in Reqs |-> NoResp]
    /\ fan = [g \in Reqs |-> [p \in Providers |-> "none"]]
    /\ agg = [g \in Reqs |-> NoAgg]
    /\ heap = EmptyMap
    /\ metrics = [requests |-> 0, cacheHits |-> 0, providerErrors |-> 0]
    /\ mu = 0
    /\ acall = [g \in Reqs |-> NoAllow]
    /\ spc = "idle"
    /\ sctx = "live"
    /\ deadline = 0
    /\ prov = [p \in Providers |-> NoProv]
    /\ hotelMap = EmptyMap
    /\ succeeded = 0
    /\ failed = 0
    /\ errors = <<>>
    /\ sret = [result |-> NilResult, err |-> NoErr]
    /\ merged = <<>>
    /\ cancelRunning = {}
    /\ hreq = NoRequest
    /\ hprev = [req |-> NoRequest, out |-> NoFront]
    /\ hout = NoFront
    /\ hcount = 0
    /\ kin = <<>>
    /\ kout = <<>>
    /\ closed = [c \in Components |-> FALSE]
    /\ sweeper = [c \in Components |-> "running"]

LimiterInit ==
    /\ now = 0
    /\ \E r \in Rates : \E w \in Windows : LimiterNew(r, w)
    /\ CacheNew
    /\ ReqInit

LimiterStep ==
    \/ \E k \in Clients : Allow(k)
    \/ LimiterSweep
    \/ Tick(MaxTime) /\ UNCHANGED pipeVars

LimiterNext == LimiterStep /\ UNCHANGED <<allowVars, searchVars, frontVars, lifeVars>>

SpecLimiter == LimiterInit /\ [][LimiterNext]_vars

\* ============================== Limiter.Allow, statement by statement
\* Goroutines call Allow concurrently; each statement of its body is a
\* step, so that the exclusion is the work of l.mu and of nothing else.

\* mutation: Lock() that does not wait for the mutex
MutexIgnored == TRUE

\* l.mu.Lock() can return
MutexFree == mu = 0

\* goroutines are numbered in the order in which they enter Allow
NextCaller(g) ==
    acall[g].pc = "idle" /\ \A h \in Reqs : h < g => acall[h].pc # "idle"

\* l.mu.Lock(); defer l.mu.Unlock(); now := time.Now()
AllowLock(g, k) ==
    /\ NextCaller(g)
    /\ MutexFree
    /\ mu' = g
    /\ acall' = [acall EXCEPT ![g] = [@ EXCEPT !.pc = "locked", !.key = k, !.t = now]]
    /\ UNCHANGED <<now, limiterVars>>

\* b, ok := l.buckets[key]; if !ok { b = &bucket{..}; l.buckets[key] = b }
AllowGetOrCreate(g) ==
    /\ acall[g].pc = "locked"
    /\ buckets' = IF acall[g].key \in DOMAIN buckets THEN buckets
                  ELSE Put(buckets, acall[g].key, NewBucket(rate, acall[g].t))
    /\ acall' = [acall EXCEPT ![g].pc = "found"]
    /\ UNCHANGED <<now, rate, window, calls, grants, last, mu>>

\* if now.Sub(b.lastReset) >= l.window { b.tokens = l.rate; b.lastReset = now }
AllowReset(g) ==
    /\ acall[g].pc = "found"
    /\ acall[g].key \in DOMAIN buckets
    /\ buckets' = IF WindowPassed(acall[g].t, buckets[acall[g].key].lastReset, window)
                  THEN Put(buckets, acall[g].key, NewBucket(rate, acall[g].t))
                  ELSE buckets
    /\ acall' = [acall EXCEPT ![g].pc = "reset"]
    /\ UNCHANGED <<now, rate, window, calls, grants, last, mu>>

\* if b.tokens > 0
AllowCheck(g) ==
    /\ acall[g].pc = "reset"
    /\ acall[g].key \in DOMAIN buckets
    /\ acall' = [acall EXCEPT ![g].pc = "checked",
                              ![g].hasToken = HasToken(buckets[acall[g].key].tokens)]
    /\ UNCHANGED <<now, limiterVars, mu>>

\* b.tokens--; return true, or return false; then the deferred Unlock()
AllowReturn(g) ==
    /\ acall[g].pc = "checked"
    /\ acall[g].key \in DOMAIN buckets
    /\ buckets' = IF acall[g].hasToken
                  THEN [buckets EXCEPT ![acall[g].key].tokens = @ - 1]
                  ELSE buckets
    /\ acall' = [acall EXCEPT ![g].pc = "done", ![g].ok = acall[g].hasToken]
    /\ mu' = 0
    /\ calls' = [calls EXCEPT ![acall[g].key][acall[g].t] = @ + 1]
    /\ grants' = [grants EXCEPT ![acall[g].key][acall[g].t] =
                     @ + (IF acall[g].hasToken THEN 1 ELSE 0)]
    /\ last' = [key |-> acall[g].key, at |-> acall[g].t, ok |-> acall[g].hasToken,
                refilled |-> FALSE, seq |-> last.seq + 1]
    /\ UNCHANGED <<now, rate, window>>

\* the sweeper takes l.mu for its pass
AllowSweep ==
    /\ MutexFree
    /\ LimiterSweep
    /\ UNCHANGED allowVars

AllowStep ==
    \/ \E g \in Reqs : \E k \in Clients : AllowLock(g, k) /\ UNCHANGED <<cacheVars, reqVars, pipeVars>>
    \/ \E g \in Reqs : AllowGetOrCreate(g) /\ UNCHANGED <<cacheVars, reqVars, pipeVars>>
    \/ \E g \in Reqs : AllowReset(g) /\ UNCHANGED <<cacheVars, reqVars, pipeVars>>
    \/ \E g \in Reqs : AllowCheck(g) /\ UNCHANGED <<cacheVars, reqVars, pipeVars>>
    \/ \E g \in Reqs : AllowReturn(g) /\ UNCHANGED <<cacheVars, reqVars, pipeVars>>
    \/ AllowSweep
    \/ Tick(MaxTime) /\ UNCHANGED <<pipeVars, allowVars>>

AllowNext == AllowStep /\ UNCHANGED <<searchVars, frontVars, lifeVars>>

SpecAllow == LimiterInit /\ [][AllowNext]_vars

\* =============================================================== cache
\* mutation: an entry still served at the instant it expires
BeforeOrAt(t, expiresAt) == t <= expiresAt

\* time.Now().Before(entry.expiresAt)
Before(t, expiresAt) == t < expiresAt

\* mutation: a sweeper that takes an entry for expired as soon as it is stored
AfterStored(t, expiresAt) == t + TTL >= expiresAt

\* now.After(entry.expiresAt)
After(t, expiresAt) == t > expiresAt

\* the entry test of GetOrFetch: present and not yet expired
IsCached(k) == k \in DOMAIN entries /\ Before(now, entries[k].expiresAt)

\* mutation: the in-flight test looks in the entry table
IsInflightWrongMap(k) == k \in DOMAIN entries

\* the in-flight test of GetOrFetch
IsInflight(k) == k \in DOMAIN inflight

\* mutation: the store test without the nil-result check
ShouldStoreNoNilCheck(result, err) == err = NoErr

\* mutation: a cache that stores nothing
ShouldStoreNever(result, err) == FALSE

\* the store test of GetOrFetch: err == nil && result != nil
ShouldStore(result, err) == err = NoErr /\ result # Nil

\* mutation: a waiter that drops the leader's error
WaiterReturnNoErr(rec) == [result |-> rec.result, hit |-> FALSE, err |-> NoErr]

\* what a waiter returns when the completion signal fires
WaiterReturn(rec) == [result |-> rec.result, hit |-> FALSE, err |-> rec.err]

\* what a waiter returns when its context is done: nil, false, context.Cause(ctx)
CancelReturn(c) == [result |-> Nil, hit |-> FALSE, err |-> c]

\* what the `resolved` history says of key k now
SeenNow(k) ==
    IF k \in DOMAIN resolved /\ now - resolved[k].at < TTL
    THEN [valid |-> TRUE, result |-> resolved[k].result]
    ELSE [valid |-> FALSE, result |-> Nil]

\* c.mu.Lock() can return
CacheMutexFree == cmu = 0

\* mutation: a leader that keeps c.mu while its fetch runs
LookupFetchesLocked(g, k) ==
    /\ CacheMutexFree
    /\ seen' = [seen EXCEPT ![g] = SeenNow(k)]
    /\ IF IsCached(k)
       THEN /\ pc' = [pc EXCEPT ![g] = "ret"]
            /\ role' = [role EXCEPT ![g] = "hit"]
            /\ ret' = [ret EXCEPT ![g] = [result |-> entries[k].result,
                                          hit |-> TRUE, err |-> NoErr]]
            /\ UNCHANGED <<inflight, recs, myrec, cmu>>
       ELSE IF IsInflight(k)
       THEN /\ pc' = [pc EXCEPT ![g] = "wait"]
            /\ role' = [role EXCEPT ![g] = "waiter"]
            /\ myrec' = [myrec EXCEPT ![g] = inflight[k]]
            /\ UNCHANGED <<inflight, recs, ret, cmu>>
       ELSE /\ pc' = [pc EXCEPT ![g] = "fetch"]
            /\ role' = [role EXCEPT ![g] = "leader"]
            /\ recs' = Append(recs, [done |-> FALSE, result |-> Nil, err |-> NoErr])
            /\ inflight' = Put(inflight, k, Len(recs) + 1)
            /\ myrec' = [myrec EXCEPT ![g] = Len(recs) + 1]
            /\ cmu' = g
            /\ UNCHANGED ret
    /\ UNCHANGED <<entries, resolved, purged, fres>>

\* GetOrFetch, first critical section, by goroutine g on key k: the entry
\* test, the in-flight test, or the creation of a new in-flight request
Lookup(g, k) ==
    /\ CacheMutexFree
    /\ seen' = [seen EXCEPT ![g] = SeenNow(k)]
    /\ IF IsCached(k)
       THEN /\ pc' = [pc EXCEPT ![g] = "ret"]
            /\ role' = [role EXCEPT ![g] = "hit"]
            /\ ret' = [ret EXCEPT ![g] = [result |-> entries[k].result,
                                          hit |-> TRUE, err |-> NoErr]]
            /\ UNCHANGED <<inflight, recs, myrec>>
       ELSE IF IsInflight(k)
       THEN /\ pc' = [pc EXCEPT ![g] = "wait"]
            /\ role' = [role EXCEPT ![g] = "waiter"]
            /\ myrec' = [myrec EXCEPT ![g] = inflight[k]]
            /\ UNCHANGED <<inflight, recs, ret>>
       ELSE /\ pc' = [pc EXCEPT ![g] = "fetch"]
            /\ role' = [role EXCEPT ![g] = "leader"]
            /\ recs' = Append(recs, [done |-> FALSE, result |-> Nil, err |-> NoErr])
            /\ inflight' = Put(inflight, k, Len(recs) + 1)
            /\ myrec' = [myrec EXCEPT ![g] = Len(recs) + 1]
            /\ UNCHANGED ret
    /\ UNCHANGED <<entries, resolved, cmu, purged, fres>>

\* requests are numbered in the order in which they arrive
NextToArrive(g) == pc[g] = "idle" /\ \A h \in Reqs : h < g => pc[h] # "idle"

\* keys are numbered in the order in which callers first use them
KeyOrder == <<"k1", "k2">>
NextKey(k) ==
    \A i, j \in 1..Len(KeyOrder) :
        (KeyOrder[j] = k /\ i < j) => \E h \in Reqs : key[h] = KeyOrder[i]

\* mutation: a GetOrFetch that returns the cause of a context that is
\* already done instead of looking at the tables
CallChecksContext(g, k) ==
    /\ NextToArrive(g)
    /\ NextKey(k)
    /\ key' = [key EXCEPT ![g] = k]
    /\ IF ctx[g] = "live"
       THEN Lookup(g, k)
       ELSE /\ pc' = [pc EXCEPT ![g] = "ret"]
            /\ role' = [role EXCEPT ![g] = "gaveup"]
            /\ ret' = [ret EXCEPT ![g] = CancelReturn(ctx[g])]
            /\ UNCHANGED <<cacheVars, myrec, fres, seen>>
    /\ UNCHANGED <<now, limiterVars, ctx>>

\* A caller invokes GetOrFetch(ctx, k, fetch), up to the end of the first
\* critical section
Call(g, k) ==
    /\ NextToArrive(g)
    /\ NextKey(k)
    /\ key' = [key EXCEPT ![g] = k]
    /\ Lookup(g, k)
    /\ UNCHANGED <<now, limiterVars, ctx>>

\* the waiter's select: case <-inflight.done
WaitDone(g) ==
    /\ pc[g] = "wait"
    /\ recs[myrec[g]].done
    /\ pc' = [pc EXCEPT ![g] = "ret"]
    /\ ret' = [ret EXCEPT ![g] = WaiterReturn(recs[myrec[g]])]
    /\ UNCHANGED <<now, limiterVars, cacheVars, key, ctx, role, myrec, fres, seen>>

\* mutation: a canceled waiter that removes the in-flight entry it waited on
WaitCancelAbandons(g) ==
    /\ pc[g] = "wait"
    /\ ctx[g] # "live"
    /\ pc' = [pc EXCEPT ![g] = "ret"]
    /\ ret' = [ret EXCEPT ![g] = [result |-> Nil, hit |-> FALSE, err |-> ctx[g]]]
    /\ role' = [role EXCEPT ![g] = "gaveup"]
    /\ inflight' = Delete(inflight, key[g])
    /\ UNCHANGED <<now, limiterVars, entries, recs, resolved, cmu, purged, key, ctx, myrec,
                   fres, seen>>

\* the waiter's select: case <-ctx.Done()
WaitCancel(g) ==
    /\ pc[g] = "wait"
    /\ ctx[g] # "live"
    /\ pc' = [pc EXCEPT ![g] = "ret"]
    /\ ret' = [ret EXCEPT ![g] = CancelReturn(ctx[g])]
    /\ role' = [role EXCEPT ![g] = "gaveup"]
    /\ UNCHANGED <<now, limiterVars, cacheVars, key, ctx, myrec, fres, seen>>

\* the caller's context is canceled while it waits (or, in the handler,
\* while the fan-out it leads is running)
CtxCancel(g) ==
    /\ pc[g] \in {"wait", "fanout"}
    /\ ctx[g] = "live"
    /\ ctx' = [ctx EXCEPT ![g] = "canceled"]
    /\ UNCHANGED <<now, limiterVars, cacheVars, pc, key, role, myrec, fres, ret, seen>>

\* what a fetch thunk may return to leader g: a fresh result (named by the
\* leader's record), a nil result, an error, or a result with an error
ThunkOutcomes(g) ==
    {[result |-> r, err |-> e] : r \in {Nil, myrec[g]}, e \in {NoErr, "fetch failed"}}

\* mutation: a second critical section that leaves the in-flight entry
StoreLeavesInflight(g, out) ==
    /\ CacheMutexFree
    /\ fres' = [fres EXCEPT ![g] = out]
    /\ recs' = [recs EXCEPT ![myrec[g]].result = out.result,
                            ![myrec[g]].err = out.err]
    /\ IF ShouldStore(out.result, out.err)
       THEN /\ entries' = Put(entries, key[g],
                              [result |-> out.result, expiresAt |-> now + TTL])
            /\ resolved' = Put(resolved, key[g], [result |-> out.result, at |-> now])
       ELSE UNCHANGED <<entries, resolved>>
    /\ inflight' = inflight
    /\ pc' = [pc EXCEPT ![g] = "notify"]
    /\ UNCHANGED <<now, limiterVars, cmu, purged, key, ctx, role, myrec, ret, seen>>

\* GetOrFetch, second critical section, entered with the thunk's outcome:
\* record it on the in-flight request, store the entry if the fetch
\* succeeded, delete the in-flight entry
Store(g, out) ==
    /\ CacheMutexFree
    /\ fres' = [fres EXCEPT ![g] = out]
    /\ recs' = [recs EXCEPT ![myrec[g]].result = out.result,
                            ![myrec[g]].err = out.err]
    /\ IF ShouldStore(out.result, out.err)
       THEN /\ entries' = Put(entries, key[g],
                              [result |-> out.result, expiresAt |-> now + TTL])
            /\ resolved' = Put(resolved, key[g], [result |-> out.result, at |-> now])
       ELSE UNCHANGED <<entries, resolved>>
    /\ inflight' = Delete(inflight, key[g])
    /\ pc' = [pc EXCEPT ![g] = "notify"]
    /\ UNCHANGED <<now, limiterVars, cmu, purged, key, ctx, role, myrec, ret, seen>>

\* result, err := fetch() for an arbitrary thunk, run outside the lock, and
\* the critical section that follows its return
ThunkReturn(g) ==
    /\ pc[g] = "fetch"
    /\ \E out \in ThunkOutcomes(g) : Store(g, out)

\* mutation: a leader that returns without closing the channel
NotifyNoSignal(g) ==
    /\ pc[g] = "notify"
    /\ pc' = [pc EXCEPT ![g] = "ret"]
    /\ ret' = [ret EXCEPT ![g] = [result |-> fres[g].result, hit |-> FALSE,
                                  err |-> fres[g].err]]
    /\ UNCHANGED <<now, limiterVars, cacheVars, key, ctx, role, myrec, fres, seen>>

\* close(inflight.done); return result, false, err
Notify(g) ==
    /\ pc[g] = "notify"
    /\ recs' = [recs EXCEPT ![myrec[g]].done = TRUE]
    /\ pc' = [pc EXCEPT ![g] = "ret"]
    /\ ret' = [ret EXCEPT ![g] = [result |-> fres[g].result, hit |-> FALSE,
                                  err |-> fres[g].err]]
    /\ UNCHANGED <<now, limiterVars, entries, inflight, resolved, cmu, purged,
                   key, ctx, role, myrec, fres, seen>>

\* the in-flight records of the keys in K
InflightOf(K) == {inflight[k] : k \in K \cap DOMAIN inflight}

\* mutation: an Invalidate that also drops the in-flight request of the key
InvalidateDropsInflight(k) ==
    /\ CacheMutexFree
    /\ entries' = Delete(entries, k)
    /\ resolved' = Delete(resolved, k)
    /\ inflight' = Delete(inflight, k)
    /\ UNCHANGED <<now, limiterVars, recs, cmu, reqVars>>

\* Cache.Invalidate(key)
Invalidate(k) ==
    /\ CacheMutexFree
    /\ entries' = Delete(entries, k)
    /\ resolved' = Delete(resolved, k)
    /\ UNCHANGED <<now, limiterVars, inflight, recs, cmu, reqVars>>

\* Cache.Clear()
Clear ==
    /\ CacheMutexFree
    /\ entries' = EmptyMap
    /\ resolved' = EmptyMap
    /\ UNCHANGED <<now, limiterVars, inflight, recs, cmu, reqVars>>

\* mutation: a cache sweeper that goes on after its goroutine returned
CacheSweepUnstoppable ==
    /\ CacheMutexFree
    /\ entries' = [k \in {x \in DOMAIN entries :
                            ~After(now, entries[x].expiresAt)} |-> entries[k]]
    /\ UNCHANGED <<now, limiterVars, inflight, recs, resolved, cmu, purged, reqVars>>

\* One pass of Cache.cleanup's ticker case, under c.mu
CacheSweep ==
    /\ sweeper["cache"] = "running"
    /\ CacheMutexFree
    /\ entries' = [k \in {x \in DOMAIN entries :
                            ~After(now, entries[x].expiresAt)} |-> entries[k]]
    /\ UNCHANGED <<now, limiterVars, inflight, recs, resolved, cmu, purged, reqVars>>

CacheInit ==
    /\ now = 0
    /\ LimiterNew(AppRate, AppWindow)
    /\ CacheNew
    /\ ReqInit

\* the cache exercised on its own, by callers with arbitrary thunks
CacheStep ==
    \/ \E g \in Reqs : \E k \in Keys : Call(g, k)
    \/ \E g \in Reqs : WaitDone(g)
    \/ \E g \in Reqs : WaitCancel(g)
    \/ \E g \in Reqs : CtxCancel(g)
    \/ \E g \in Reqs : ThunkReturn(g)
    \/ \E g \in Reqs : Notify(g)
    \/ \E k \in Keys : Invalidate(k) /\ UNCHANGED purged
    \/ Clear /\ UNCHANGED purged
    \/ CacheSweep
    \/ Tick(MaxCacheTime)

CacheNext == CacheStep /\ UNCHANGED <<pipeVars, allowVars, searchVars, frontVars, lifeVars>>

SpecCache == CacheInit /\ [][CacheNext]_vars

\* A goroutine that can run does run: the leader that has left its second
\* critical section closes the channel, and a waiter whose select has a
\* ready case takes one.  Nothing is assumed of the thunks, of the callers
\* that have not arrived, of the contexts or of the sweeper.
CacheFairness ==
    \A g \in Reqs :
        /\ WF_vars(Notify(g) /\ UNCHANGED <<pipeVars, allowVars, searchVars, frontVars,
                                            lifeVars>>)
        /\ WF_vars(WaitDone(g) /\ UNCHANGED <<pipeVars, allowVars, searchVars, frontVars,
                                              lifeVars>>)

SpecCacheLive == SpecCache /\ CacheFairness

\* the cache exercised with a record of the requests that were in flight
\* when their key was invalidated or the cache cleared
PurgeStep ==
    \/ \E g \in Reqs : \E k \in Keys : Call(g, k)
    \/ \E g \in Reqs : WaitDone(g)
    \/ \E g \in Reqs : ThunkReturn(g)
    \/ \E g \in Reqs : Notify(g)
    \/ \E k \in Keys : Invalidate(k) /\ purged' = purged \cup InflightOf({k})
    \/ Clear /\ purged' = purged \cup InflightOf(Keys)
    \/ CacheSweep
    \/ Tick(MaxCacheTime)

PurgeNext == PurgeStep /\ UNCHANGED <<pipeVars, allowVars, searchVars, frontVars, lifeVars>>

SpecPurge == CacheInit /\ [][PurgeNext]_vars

\* the context of a caller is canceled before it calls GetOrFetch
CancelBeforeCall(g) ==
    /\ NextToArrive(g)
    /\ ctx[g] = "live"
    /\ ctx' = [ctx EXCEPT ![g] = "canceled"]
    /\ UNCHANGED <<now, limiterVars, cacheVars, pc, key, role, myrec, fres, ret, seen>>

\* the cache exercised by callers whose context may be done when they call
CanceledStep ==
    \/ \E g \in Reqs : CancelBeforeCall(g)
    \/ \E g \in Reqs : \E k \in Keys : Call(g, k)
    \/ \E g \in Reqs : WaitDone(g)
    \/ \E g \in Reqs : WaitCancel(g)
    \/ \E g \in Reqs : CtxCancel(g)
    \/ \E g \in Reqs : ThunkReturn(g)
    \/ \E g \in Reqs : Notify(g)
    \/ Tick(MaxCacheTime)

CanceledNext ==
    CanceledStep /\ UNCHANGED <<pipeVars, allowVars, searchVars, frontVars, lifeVars>>

SpecCanceled == CacheInit /\ [][CanceledNext]_vars

\* ================================================ Close and the sweepers
\* Cache.Close() / Limiter.Close(): close(done).  Each is called once, by
\* the deferred calls of app.Run.
Close(c) ==
    /\ ~closed[c]
    /\ closed' = [closed EXCEPT ![c] = TRUE]
    /\ UNCHANGED <<now, limiterVars, cacheVars, reqVars, pipeVars, sweeper>>

\* cleanup's select takes the case <-done and the goroutine returns.  Until
\* then the ticker case may still be taken (CacheSweep, LimiterSweep).
SweeperStop(c) ==
    /\ closed[c]
    /\ sweeper[c] = "running"
    /\ sweeper' = [sweeper EXCEPT ![c] = "stopped"]
    /\ UNCHANGED <<now, limiterVars, cacheVars, reqVars, pipeVars, closed>>

\* The cache and the limiter share no field and no lock (cache.go:13-19,
\* ratelimit.go:9-15), so each is exercised while the other one rests as
\* constructed: the cache during the first MaxCacheTime ticks of the clock,
\* the limiter during the first MaxTime ticks, with MaxLifeCalls calls.
CacheRests == recs = <<>>
LimiterRests == TotalCalls = 0 /\ now <= MaxCacheTime

LifeStep ==
    \/ /\ LimiterRests
       /\ \/ \E g \in Reqs : \E k \in Keys : Call(g, k)
          \/ \E g \in Reqs : WaitDone(g)
          \/ \E g \in Reqs : ThunkReturn(g)
          \/ \E g \in Reqs : Notify(g)
          \/ CacheSweep
       /\ UNCHANGED <<pipeVars, lifeVars>>
    \/ \E c \in Components : Close(c)
    \/ \E c \in Components : SweeperStop(c)
    \/ CacheRests /\ TotalCalls < MaxLifeCalls /\ (\E k \in Clients : Allow(k))
          /\ UNCHANGED lifeVars
    \/ CacheRests /\ LimiterSweep /\ UNCHANGED lifeVars
    \/ Tick(IF CacheRests THEN MaxTime ELSE MaxCacheTime) /\ UNCHANGED <<pipeVars, lifeVars>>

LifeNext == LifeStep /\ UNCHANGED <<allowVars, searchVars, frontVars>>

\* a cleanup goroutine whose done channel is closed is scheduled in the end
LifeFairness ==
    \A c \in Components :
        WF_vars(SweeperStop(c) /\ UNCHANGED <<allowVars, searchVars, frontVars>>)

SpecClose == CacheInit /\ [][LifeNext]_vars /\ LifeFairness

\* ============================================ aggregator and handler
\* mutation: a key without the separator between nights and adults
KeyCountsUnseparated(city, checkin, nights, adults) ==
    city \o ":" \o checkin \o ":" \o ToString(nights) \o ToString(adults)

\* Cache.Key: fmt.Sprintf("%s:%s:%d:%d", city, checkin, nights, adults)
Key(city, checkin, nights, adults) ==
    city \o ":" \o checkin \o ":" \o ToString(nights) \o ":" \o ToString(adults)

\* validated queries, and what ParseSearchParams may return for a request
Queries ==
    {[city |-> "paris", checkin |-> "2025-06-01", nights |-> 1, adults |-> 2],
     [city |-> "rome", checkin |-> "2025-06-01", nights |-> 2, adults |-> 1]}
NoParams == [city |-> "", checkin |-> "", nights |-> 0, adults |-> 0]
ParseOutcomes ==
    {[err |-> "city is required", params |-> NoParams]}
        \cup {[err |-> NoErr, params |-> q] : q \in Queries}

\* clients and queries are numbered in the order in which they first appear
ClientOrder == <<"10.0.0.1", "10.0.0.2">>
NextClient(ip) ==
    \A i, j \in 1..Len(ClientOrder) :
        (ClientOrder[j] = ip /\ i < j) => \E h \in Reqs : client[h] = ClientOrder[i]
NextQuery(parsed) ==
    parsed.params.city = "rome" => \E h \in Reqs : key[h] # ""

\* mutation: a handler that puts the error of the pipeline in the body
ResponseOfLeaksError(r) ==
    IF r.err # NoErr
    THEN [status |-> 500, error |-> r.err, cache |-> ""]
    ELSE [status |-> 200, error |-> "", cache |-> IF r.hit THEN "hit" ELSE "miss"]

\* the response SearchHandler writes for what GetOrFetch returned: 500 with
\* "search failed" on an error, else 200 with the cache status
ResponseOf(r) ==
    IF r.err # NoErr
    THEN [status |-> 500, error |-> "search failed", cache |-> ""]
    ELSE [status |-> 200, error |-> "", cache |-> IF r.hit THEN "hit" ELSE "miss"]

\* SearchHandler from the return of GetOrFetch on, when a step returns from it
Respond(g) ==
    IF pc'[g] = "ret"
    THEN /\ resp' = [resp EXCEPT ![g] = ResponseOf(ret'[g])]
         /\ metrics' = [metrics EXCEPT !.cacheHits =
                            @ + (IF ret'[g].err = NoErr /\ ret'[g].hit THEN 1 ELSE 0)]
    ELSE UNCHANGED <<resp, metrics>>

\* mutation: a handler that validates the parameters before it consults
\* the limiter
HandlerStartValidatesFirst(g, ip, parsed) ==
    /\ g <= MaxAdmit
    /\ NextToArrive(g)
    /\ NextClient(ip)
    /\ NextQuery(parsed)
    /\ metrics' = [metrics EXCEPT !.requests = @ + 1]
    /\ client' = [client EXCEPT ![g] = ip]
    /\ IF parsed.err # NoErr
       THEN /\ resp' = [resp EXCEPT ![g] = [status |-> 400, error |-> parsed.err,
                                            cache |-> ""]]
            /\ pc' = [pc EXCEPT ![g] = "ret"]
            /\ UNCHANGED <<key, buckets>>
       ELSE IF ~AllowResult(ip)
       THEN /\ resp' = [resp EXCEPT ![g] = [status |-> 429,
                                            error |-> "rate limit exceeded", cache |-> ""]]
            /\ pc' = [pc EXCEPT ![g] = "ret"]
            /\ buckets' = AllowBuckets(ip)
            /\ UNCHANGED key
       ELSE /\ key' = [key EXCEPT ![g] = Key(parsed.params.city, parsed.params.checkin,
                                             parsed.params.nights, parsed.params.adults)]
            /\ pc' = [pc EXCEPT ![g] = "enter"]
            /\ buckets' = AllowBuckets(ip)
            /\ UNCHANGED resp
    /\ UNCHANGED <<now, rate, window, calls, grants, last, cacheVars,
                   ctx, role, myrec, fres, ret, seen, fan, agg, heap>>

\* SearchHandler up to the call of GetOrFetch: count the request, consult
\* the limiter with the client identity, validate, build the cache key
HandlerStart(g, ip, parsed) ==
    /\ g <= MaxAdmit
    /\ NextToArrive(g)
    /\ NextClient(ip)
    /\ NextQuery(parsed)
    /\ metrics' = [metrics EXCEPT !.requests = @ + 1]
    /\ client' = [client EXCEPT ![g] = ip]
    /\ buckets' = AllowBuckets(ip)
    /\ IF ~AllowResult(ip)
       THEN /\ resp' = [resp EXCEPT ![g] = [status |-> 429,
                                            error |-> "rate limit exceeded", cache |-> ""]]
            /\ pc' = [pc EXCEPT ![g] = "ret"]
            /\ UNCHANGED key
       ELSE IF parsed.err # NoErr
       THEN /\ resp' = [resp EXCEPT ![g] = [status |-> 400, error |-> parsed.err,
                                            cache |-> ""]]
            /\ pc' = [pc EXCEPT ![g] = "ret"]
            /\ UNCHANGED key
       ELSE /\ key' = [key EXCEPT ![g] = Key(parsed.params.city, parsed.params.checkin,
                                             parsed.params.nights, parsed.params.adults)]
            /\ pc' = [pc EXCEPT ![g] = "enter"]
            /\ UNCHANGED resp
    /\ UNCHANGED <<now, rate, window, calls, grants, last, cacheVars,
                   ctx, role, myrec, fres, ret, seen, fan, agg, heap>>

\* GetOrFetch called by the handler: the first critical section
Enter(g) ==
    /\ pc[g] = "enter"
    /\ Lookup(g, key[g])
    /\ Respond(g)
    /\ UNCHANGED <<now, limiterVars, key, ctx, client, fan, agg, heap>>

\* Aggregator.Search, called as the leader's thunk with the leader's request
\* context: derive the deadline and start one goroutine per provider
SearchStart(g) ==
    /\ pc[g] = "fetch"
    /\ agg' = [agg EXCEPT ![g] = [succeeded |-> 0, failed |-> 0, errors |-> <<>>,
                                  deadline |-> now + Timeout]]
    /\ fan' = [fan EXCEPT ![g] = [p \in Providers |-> "running"]]
    /\ pc' = [pc EXCEPT ![g] = "fanout"]
    /\ UNCHANGED <<now, limiterVars, cacheVars, key, ctx, role, myrec, fres, ret, seen,
                   client, resp, heap, metrics>>

\* the derived context of the fan-out led by g is done, and why
CtxErrors(g) ==
    (IF ctx[g] = "canceled" THEN {"canceled"} ELSE {})
        \cup (IF now >= agg[g].deadline THEN {"deadline exceeded"} ELSE {})

\* what provider.Search may return: hotels, an error of the upstream, or
\* the cause of the context once it is done
ProviderOutcomes(g) == {"ok", "unavailable"} \cup CtxErrors(g)

\* provider.Search returns to one provider goroutine of Search, which
\* records the outcome under mu; after an error it has still to count it
\* in the metrics
ProviderReturn(g, p) ==
    /\ pc[g] = "fanout"
    /\ fan[g][p] = "running"
    /\ \E o \in ProviderOutcomes(g) :
          IF o = "ok"
          THEN /\ agg' = [agg EXCEPT ![g].succeeded = @ + 1]
               /\ fan' = [fan EXCEPT ![g][p] = "ok"]
          ELSE /\ agg' = [agg EXCEPT ![g].failed = @ + 1,
                                     ![g].errors = Append(@, o)]
               /\ fan' = [fan EXCEPT ![g][p] = "counting"]
    /\ UNCHANGED <<now, limiterVars, cacheVars, reqVars, client, resp, heap, metrics>>

\* mutation: a provider goroutine that returns without counting its error
ProviderErrorUncounted(g, p) ==
    /\ pc[g] = "fanout"
    /\ fan[g][p] = "counting"
    /\ fan' = [fan EXCEPT ![g][p] = "failed"]
    /\ UNCHANGED <<now, limiterVars, cacheVars, reqVars, client, resp, agg, heap, metrics>>

\* a.metrics.IncProviderErrors() by the provider goroutine that recorded
\* an error, after mu.Unlock(); the goroutine then returns
ProviderErrorCounted(g, p) ==
    /\ pc[g] = "fanout"
    /\ fan[g][p] = "counting"
    /\ fan' = [fan EXCEPT ![g][p] = "failed"]
    /\ metrics' = [metrics EXCEPT !.providerErrors = @ + 1]
    /\ UNCHANGED <<now, limiterVars, cacheVars, reqVars, client, resp, agg, heap>>

\* how many hotels the providers that succeeded reported between them:
\* none, or some
HotelCounts == {0, 1}

\* what Search returns once every provider goroutine has returned
SearchOutcome(g) ==
    IF agg[g].failed = Cardinality(Providers)
    THEN [result |-> Nil, err |-> agg[g].errors[1]]
    ELSE [result |-> myrec[g], err |-> NoErr]

\* wg.Wait() returns: Search returns to GetOrFetch, which runs its second
\* critical section
SearchReturn(g) ==
    /\ pc[g] = "fanout"
    /\ \A p \in Providers : fan[g][p] \in {"ok", "failed"}
    /\ IF SearchOutcome(g).result # Nil
       THEN \E n \in HotelCounts :
               heap' = Put(heap, myrec[g],
                           [hotels |-> n, total |-> Cardinality(Providers),
                            succeeded |-> agg[g].succeeded, failed |-> agg[g].failed])
       ELSE heap' = heap
    /\ Store(g, SearchOutcome(g))
    /\ fan' = [fan EXCEPT ![g] = [p \in Providers |-> "none"]]
    /\ agg' = [agg EXCEPT ![g] = NoAgg]
    /\ UNCHANGED <<client, resp, metrics>>

PipelineInit ==
    /\ now = 0
    /\ LimiterNew(AppRate, AppWindow)
    /\ CacheNew
    /\ ReqInit

PipelineStep ==
    \/ \E g \in Reqs : \E ip \in Clients : \E parsed \in ParseOutcomes :
          HandlerStart(g, ip, parsed)
    \/ \E g \in Reqs : Enter(g)
    \/ \E g \in Reqs : WaitDone(g) /\ Respond(g) /\ UNCHANGED <<client, fan, agg, heap>>
    \/ \E g \in Reqs : WaitCancel(g) /\ Respond(g) /\ UNCHANGED <<client, fan, agg, heap>>
    \/ \E g \in Reqs : CtxCancel(g) /\ UNCHANGED pipeVars
    \/ \E g \in Reqs : SearchStart(g)
    \/ \E g \in Reqs : \E p \in Providers : ProviderReturn(g, p)
    \/ \E g \in Reqs : \E p \in Providers : ProviderErrorCounted(g, p)
    \/ \E g \in Reqs : SearchReturn(g)
    \/ \E g \in Reqs : Notify(g) /\ Respond(g) /\ UNCHANGED <<client, fan, agg, heap>>
    \/ CacheSweep /\ UNCHANGED pipeVars
    \/ Tick(MaxCacheTime) /\ UNCHANGED pipeVars

PipelineNext == PipelineStep /\ UNCHANGED <<allowVars, searchVars, frontVars, lifeVars>>

SpecPipeline == PipelineInit /\ [][PipelineNext]_vars

\* ================================= Aggregator.Search and its hotels
\* One call of Search in full: the rows the providers return, their
\* normalization, the merge into hotelMap and the sort of the result.
\* Strings are sequences of characters; prices are integers or NaN.

\* the float64 value NaN (every comparison with it is false)
NaN == 1000000

\* the total number of rows the providers return to one call of Search
MaxRows == 3

\* float64 comparisons a < b, a <= b
FLt(a, b) == a # NaN /\ b # NaN /\ a < b
FLe(a, b) == a # NaN /\ b # NaN /\ a <= b

\* unicode.IsSpace, on the characters used
IsSpace(c) == c \in {" ", "\t"}

\* strings.TrimSpace
RECURSIVE TrimLeft(_)
TrimLeft(str) ==
    IF str # <<>> /\ IsSpace(Head(str)) THEN TrimLeft(Tail(str)) ELSE str
RECURSIVE TrimRight(_)
TrimRight(str) ==
    IF str # <<>> /\ IsSpace(str[Len(str)])
    THEN TrimRight(SubSeq(str, 1, Len(str) - 1)) ELSE str
TrimSpace(str) == TrimRight(TrimLeft(str))

\* mutation: ToUpper that leaves every character as it is
UpperCharIdentity(c) == c

\* strings.ToUpper, on the characters used
LowerLetters == <<"d", "e", "r", "s", "u">>
UpperLetters == <<"D", "E", "R", "S", "U">>
UpperChar(c) ==
    IF \E n \in 1..Len(LowerLetters) : LowerLetters[n] = c
    THEN UpperLetters[CHOOSE n \in 1..Len(LowerLetters) : LowerLetters[n] = c]
    ELSE c
ToUpper(str) == [n \in 1..Len(str) |-> UpperChar(str[n])]

\* the string "EUR"
EUR == <<"E", "U", "R">>

\* a nil *types.Hotel
NilHotel == [HotelID |-> <<>>, Name |-> <<>>, Currency |-> <<>>, Price |-> 0]

\* h.Price <= 0
PriceRejected(price) == FLe(price, 0)

\* normalizeHotel
normalizeHotel(h) ==
    LET hotelID == TrimSpace(h.HotelID)
        name == TrimSpace(h.Name)
        currency == ToUpper(TrimSpace(h.Currency))
    IN  IF hotelID = <<>> THEN NilHotel
        ELSE IF name = <<>> THEN NilHotel
        ELSE IF PriceRejected(h.Price) THEN NilHotel
        ELSE [HotelID |-> hotelID, Name |-> name,
              Currency |-> IF currency = <<>> THEN EUR ELSE currency,
              Price |-> h.Price]

\* the rows (providers.Hotel; City and Nights, which normalizeHotel does
\* not read, left out) a provider may report
RawRows ==
    {[HotelID |-> <<" ", "h", "1">>, Name |-> <<"A">>, Currency |-> <<"u", "s", "d">>, Price |-> 2],
     [HotelID |-> <<"h", "1">>, Name |-> <<"B", " ">>, Currency |-> <<"u", "s">>, Price |-> 2],
     [HotelID |-> <<"h", "1">>, Name |-> <<"A">>, Currency |-> <<" ", "e", "u", "r">>, Price |-> 1],
     [HotelID |-> <<"h", "3">>, Name |-> <<"B">>, Currency |-> <<"E", "U", "R">>, Price |-> NaN],
     [HotelID |-> <<"h", "2">>, Name |-> <<" ">>, Currency |-> <<"u", "s", "d">>, Price |-> 1],
     [HotelID |-> <<"\t">>, Name |-> <<"A">>, Currency |-> <<"u", "s", "d">>, Price |-> 1],
     [HotelID |-> <<"h", "2">>, Name |-> <<"A">>, Currency |-> <<" ">>, Price |-> 0],
     [HotelID |-> <<"h", "3">>, Name |-> <<"A">>, Currency |-> <<"E", "U", "R">>, Price |-> -1],
     [HotelID |-> <<"h", "3">>, Name |-> <<"B">>, Currency |-> <<>>, Price |-> 1]}

\* the lists of at most n rows
RECURSIVE RowLists(_)
RowLists(n) ==
    IF n = 0 THEN {<<>>}
    ELSE RowLists(n - 1) \cup
         {Append(l, r) : l \in {x \in RowLists(n - 1) : Len(x) = n - 1}, r \in RawRows}

\* mutation: a merge in which the later row always replaces the earlier
MergeHotelLastWins(hm, n) ==
    IF n = NilHotel THEN hm ELSE Put(hm, n.HotelID, n)

\* the loop body of the merge: skip a rejected row; dedup by hotel_id,
\* keep the lowest price
MergeHotel(hm, n) ==
    IF n = NilHotel THEN hm
    ELSE IF n.HotelID \in DOMAIN hm
    THEN IF FLt(n.Price, hm[n.HotelID].Price) THEN Put(hm, n.HotelID, n) ELSE hm
    ELSE Put(hm, n.HotelID, n)

\* for _, h := range hotels { ... }
RECURSIVE MergeRows(_, _)
MergeRows(hm, rows) ==
    IF rows = <<>> THEN hm
    ELSE MergeRows(MergeHotel(hm, normalizeHotel(Head(rows))), Tail(rows))

\* the rows of a list that normalizeHotel accepts, normalized, in order
RECURSIVE NormalizedOf(_)
NormalizedOf(rows) ==
    IF rows = <<>> THEN <<>>
    ELSE LET n == normalizeHotel(Head(rows))
         IN  (IF n = NilHotel THEN <<>> ELSE <<n>>) \o NormalizedOf(Tail(rows))

\* the orders in which range may visit the values of a map
Orders(hm) ==
    {o \in [1..Cardinality(DOMAIN hm) -> DOMAIN hm] :
        \A a, b \in 1..Cardinality(DOMAIN hm) : a # b => o[a] # o[b]}

\* sort.Slice(hotels, less) on a short slice: insertion sort, which moves
\* element i down while less(i, i-1) says so
Less(a, b) == FLt(a.Price, b.Price)
RECURSIVE InsertDown(_, _)
InsertDown(sl, j) ==
    IF j > 1 /\ Less(sl[j], sl[j - 1])
    THEN InsertDown([sl EXCEPT ![j] = sl[j - 1], ![j - 1] = sl[j]], j - 1)
    ELSE sl
RECURSIVE SortFrom(_, _)
SortFrom(sl, n) == IF n > Len(sl) THEN sl ELSE SortFrom(InsertDown(sl, n), n + 1)
SortSlice(sl) == SortFrom(sl, 2)

\* the rows the providers have returned so far
RowsReturned == SumOver([p \in Providers |-> Len(prov[p].rows)], Providers)

\* Search is called: derive the context and start one goroutine per provider
SearchCall ==
    /\ spc = "idle"
    /\ spc' = "fanout"
    /\ deadline' = now + Timeout
    /\ prov' = [p \in Providers |-> [NoProv EXCEPT !.status = "running", !.calls = 1]]
    /\ UNCHANGED <<now, sctx, hotelMap, succeeded, failed, errors, sret, merged,
                   cancelRunning, metrics>>

\* the caller cancels the parent context, before the call or while a
\* provider is running (Search does not look at ctx after wg.Wait)
ParentCancel ==
    /\ sctx = "live"
    /\ spc = "idle" \/ (spc = "fanout" /\ \E p \in Providers : prov[p].status = "running")
    /\ sctx' = "canceled"
    /\ cancelRunning' = {p \in Providers : prov[p].status \in {"idle", "running"}}
    /\ UNCHANGED <<now, spc, deadline, prov, hotelMap, succeeded, failed, errors, sret,
                   merged, metrics>>

\* the derived context of Search is done, and why
SearchCtxErrors ==
    (IF sctx = "canceled" THEN {"canceled"} ELSE {})
        \cup (IF now >= deadline THEN {"deadline exceeded"} ELSE {})

\* provider.Search returned hotels: count it and merge its rows, under mu
ProviderOk(p, rows) ==
    /\ spc = "fanout"
    /\ prov[p].status = "running"
    /\ prov' = [prov EXCEPT ![p].status = "ok", ![p].rows = rows]
    /\ succeeded' = succeeded + 1
    /\ hotelMap' = MergeRows(hotelMap, rows)
    /\ merged' = merged \o NormalizedOf(rows)
    /\ UNCHANGED <<now, spc, sctx, deadline, failed, errors, sret, cancelRunning, metrics>>

\* mutation: a failure that throws away what the completed providers merged
ProviderFailDropsHotels(p, e) ==
    /\ spc = "fanout"
    /\ prov[p].status = "running"
    /\ prov' = [prov EXCEPT ![p].status = "failed", ![p].err = e]
    /\ failed' = failed + 1
    /\ errors' = Append(errors, e)
    /\ hotelMap' = EmptyMap
    /\ metrics' = [metrics EXCEPT !.providerErrors = @ + 1]
    /\ UNCHANGED <<now, spc, sctx, deadline, succeeded, sret, merged, cancelRunning>>

\* mutation: a failure that is recorded but not counted
ProviderFailUncounted(p, e) ==
    /\ spc = "fanout"
    /\ prov[p].status = "running"
    /\ prov' = [prov EXCEPT ![p].status = "failed", ![p].err = e]
    /\ errors' = Append(errors, e)
    /\ metrics' = [metrics EXCEPT !.providerErrors = @ + 1]
    /\ UNCHANGED <<now, spc, sctx, deadline, succeeded, failed, hotelMap, sret, merged,
                   cancelRunning>>

\* provider.Search returned an error: count it under mu, then count it in
\* the metrics
ProviderFail(p, e) ==
    /\ spc = "fanout"
    /\ prov[p].status = "running"
    /\ prov' = [prov EXCEPT ![p].status = "failed", ![p].err = e]
    /\ failed' = failed + 1
    /\ errors' = Append(errors, e)
    /\ metrics' = [metrics EXCEPT !.providerErrors = @ + 1]
    /\ UNCHANGED <<now, spc, sctx, deadline, succeeded, hotelMap, sret, merged,
                   cancelRunning>>

\* mutation: Search gives up as soon as one provider failed
AnyFailed == Len(errors) > 0

\* if len(errors) > 0 { ... if failed == len(a.providers) {
AllFailed == Len(errors) > 0 /\ failed = Cardinality(Providers)

\* wg.Wait() returned: the error of the first failure if all failed, else
\* the values of hotelMap, in the order range visits them, sorted by price
SearchDone ==
    /\ spc = "fanout"
    /\ \A p \in Providers : prov[p].status \in {"ok", "failed"}
    /\ spc' = "done"
    /\ IF AllFailed
       THEN sret' = [result |-> NilResult, err |-> errors[1]]
       ELSE \E o \in Orders(hotelMap) :
               sret' = [result |->
                           [isNil |-> FALSE,
                            Hotels |-> SortSlice([n \in 1..Len(o) |-> hotelMap[o[n]]]),
                            ProvidersTotal |-> Cardinality(Providers),
                            ProvidersSucceeded |-> succeeded,
                            ProvidersFailed |-> failed],
                        err |-> NoErr]
    /\ UNCHANGED <<now, sctx, deadline, prov, hotelMap, succeeded, failed, errors, merged,
                   cancelRunning, metrics>>

\* the clock advances while a provider is running, up to the deadline
SearchTick ==
    /\ spc = "fanout"
    /\ \E p \in Providers : prov[p].status = "running"
    /\ now < deadline
    /\ Tick(MaxCacheTime)
    /\ UNCHANGED <<searchVars, metrics>>

SearchStep ==
    \/ SearchCall
    \/ ParentCancel
    \/ \E p \in Providers : \E rows \in RowLists(MaxRows - RowsReturned) : ProviderOk(p, rows)
    \/ \E p \in Providers : \E e \in {"unavailable"} \cup SearchCtxErrors : ProviderFail(p, e)
    \/ SearchDone
    \/ SearchTick

SearchNext ==
    SearchStep /\ UNCHANGED <<limiterVars, cacheVars, reqVars, allowVars,
                              client, resp, fan, agg, heap, frontVars, lifeVars>>

SpecSearch == PipelineInit /\ [][SearchNext]_vars

\* ==================================== the request front of SearchHandler
\* ExtractIP, ParseSearchParams and the library functions they call, on
\* strings as sequences of characters.

\* the decimal digits
Digits == <<"0", "1", "2", "3", "4", "5", "6", "7", "8", "9">>
IsDigit(c) == \E n \in 1..Len(Digits) : Digits[n] = c
DigitVal(c) == (CHOOSE n \in 1..Len(Digits) : Digits[n] = c) - 1
AllDigits(str) == \A n \in 1..Len(str) : IsDigit(str[n])

\* the value of a string of digits
RECURSIVE Number(_)
Number(str) ==
    IF str = <<>> THEN 0
    ELSE 10 * Number(SubSeq(str, 1, Len(str) - 1)) + DigitVal(str[Len(str)])

\* strconv.Atoi, for strings short enough not to overflow an int: an
\* optional sign and at least one digit, nothing else
Atoi(str) ==
    LET signed == str # <<>> /\ str[1] \in {"+", "-"}
        body == IF signed THEN Tail(str) ELSE str
    IN  IF body = <<>> \/ ~AllDigits(body)
        THEN [n |-> 0, ok |-> FALSE]
        ELSE [n |-> IF signed /\ str[1] = "-" THEN 0 - Number(body) ELSE Number(body),
              ok |-> TRUE]

\* the number of days of month m of year y
IsLeap(y) == y % 4 = 0 /\ (y % 100 # 0 \/ y % 400 = 0)
DaysIn(m, y) ==
    IF m = 2 THEN (IF IsLeap(y) THEN 29 ELSE 28)
    ELSE IF m \in {4, 6, 9, 11} THEN 30 ELSE 31

\* time.Parse("2006-01-02", str) returns no error: four digits, two digits
\* and two digits separated by "-", nothing before or after, a month from 1
\* to 12 and a day that the month has
TimeParseOk(str) ==
    /\ Len(str) = 10
    /\ AllDigits(SubSeq(str, 1, 4))
    /\ str[5] = "-"
    /\ AllDigits(SubSeq(str, 6, 7))
    /\ str[8] = "-"
    /\ AllDigits(SubSeq(str, 9, 10))
    /\ Number(SubSeq(str, 6, 7)) \in 1..12
    /\ Number(SubSeq(str, 9, 10)) >= 1
    /\ Number(SubSeq(str, 9, 10))
          <= DaysIn(Number(SubSeq(str, 6, 7)), Number(SubSeq(str, 1, 4)))

\* mutation: the test of nights and adults lets zero through
NotPositiveStrict(n) == n < 0

\* nights <= 0, adults <= 0
NotPositive(n) == n <= 0

\* no *SearchParams
NoSearchParams == NoFront.params

\* ParseSearchParams, on the values query.Get returns for the four
\* parameters ("" for an absent one)
ParseSearchParams(query) ==
    LET city == TrimSpace(query.city)
        checkin == TrimSpace(query.checkin)
        nights == Atoi(query.nights)
        adults == Atoi(query.adults)
        fail(msg) == [params |-> NoSearchParams, err |-> msg]
    IN  IF city = <<>> THEN fail("city is required")
        ELSE IF checkin = <<>> THEN fail("checkin is required")
        ELSE IF ~TimeParseOk(checkin) THEN fail("checkin must be in YYYY-MM-DD format")
        ELSE IF query.nights = <<>> THEN fail("nights is required")
        ELSE IF ~nights.ok \/ NotPositive(nights.n)
        THEN fail("nights must be a positive integer")
        ELSE IF query.adults = <<>> THEN fail("adults is required")
        ELSE IF ~adults.ok \/ NotPositive(adults.n)
        THEN fail("adults must be a positive integer")
        ELSE [params |-> [City |-> city, Checkin |-> checkin,
                          Nights |-> nights.n, Adults |-> adults.n],
              err |-> NoErr]

\* the index of the first (last) c in str, 0 if there is none
IndexOf(str, c) ==
    IF \E n \in 1..Len(str) : str[n] = c
    THEN CHOOSE n \in 1..Len(str) : str[n] = c /\ \A m \in 1..(n - 1) : str[m] # c
    ELSE 0
LastIndexOf(str, c) ==
    IF \E n \in 1..Len(str) : str[n] = c
    THEN CHOOSE n \in 1..Len(str) : str[n] = c /\ \A m \in (n + 1)..Len(str) : str[m] # c
    ELSE 0

\* strings.Split(str, ",")[0]
FirstOfSplit(str) ==
    IF IndexOf(str, ",") = 0 THEN str ELSE SubSeq(str, 1, IndexOf(str, ",") - 1)

\* net.SplitHostPort: the host, and whether it returned no error
SplitHostPort(hostport) ==
    LET i == LastIndexOf(hostport, ":")
        end == IndexOf(hostport, "]")
        bad == [host |-> <<>>, ok |-> FALSE]
        bracketed == hostport[1] = "["
        host == IF bracketed THEN SubSeq(hostport, 2, end - 1)
                ELSE SubSeq(hostport, 1, i - 1)
        j == IF bracketed THEN 2 ELSE 1
        k == IF bracketed THEN end + 1 ELSE 1
    IN  IF i = 0 THEN bad
        ELSE IF bracketed /\ end = 0 THEN bad
        ELSE IF bracketed /\ end + 1 # i THEN bad
        ELSE IF ~bracketed /\ IndexOf(host, ":") # 0 THEN bad
        ELSE IF IndexOf(SubSeq(hostport, j, Len(hostport)), "[") # 0 THEN bad
        ELSE IF IndexOf(SubSeq(hostport, k, Len(hostport)), "]") # 0 THEN bad
        ELSE [host |-> host, ok |-> TRUE]

\* mutation: the real-IP header preferred to the forward chain
ExtractIPRealFirst(r) ==
    IF r.xri # <<>> THEN TrimSpace(r.xri)
    ELSE IF r.xff # <<>> THEN TrimSpace(FirstOfSplit(r.xff))
    ELSE IF SplitHostPort(r.remote).ok THEN SplitHostPort(r.remote).host
    ELSE r.remote

ExtractIPPeerOnly(r) ==
    IF SplitHostPort(r.remote).ok THEN SplitHostPort(r.remote).host ELSE r.remote

\* ExtractIP, on the first X-Forwarded-For value, the first X-Real-IP value
\* ("" for an absent header) and RemoteAddr
ExtractIP(r) ==
    IF r.xff # <<>> THEN TrimSpace(FirstOfSplit(r.xff))
    ELSE IF r.xri # <<>> THEN TrimSpace(r.xri)
    ELSE IF SplitHostPort(r.remote).ok THEN SplitHostPort(r.remote).host
    ELSE r.remote

\* the number of requests the front handles
MaxFront == 2

\* the values of the four query parameters ("" for an absent one)
QueryCities ==
    {<<>>, <<" ", " ">>, <<" ", "p", "a", "r", "i", "s", " ">>, <<"a", ":", "b">>}
QueryCheckins ==
    {<<>>, <<" ">>, <<"2", "0", "2", "5", "-", "0", "6", "-", "0", "1">>,
     <<" ", "2", "0", "2", "4", "-", "0", "2", "-", "2", "9", " ">>,
     <<"2", "0", "2", "5", "-", "0", "2", "-", "2", "9">>,
     <<"1", "9", "0", "0", "-", "0", "2", "-", "2", "9">>,
     <<"2", "0", "0", "0", "-", "0", "2", "-", "2", "9">>,
     <<"1", "2", "/", "0", "1", "/", "2", "0", "2", "5">>,
     <<"2", "0", "2", "5", "-", "6", "-", "1">>,
     <<"2", "0", "2", "5", "-", "1", "3", "-", "0", "1">>,
     <<"2", "0", "2", "5", "-", "0", "4", "-", "3", "1">>,
     <<"2", "0", "2", "5", "-", "0", "6", "-", "0", "1", "1">>}
QueryNights ==
    {<<>>, <<"2">>, <<"-", "5">>, <<"0">>, <<"t", "w", "o">>, <<" ", "2">>,
     <<"+", "2">>, <<"0", "2">>, <<"2", ".", "5">>, <<"1", "0">>}
QueryAdults ==
    {<<>>, <<"1">>, <<"0">>, <<"-", "1">>, <<"x">>, <<"1", "2">>}

\* the first values of the X-Forwarded-For and X-Real-IP headers ("" for
\* an absent header) and the values of RemoteAddr
ForwardedFor ==
    {<<>>, <<"1", ".", "1", ".", "1", ".", "1">>,
     <<"1", ".", "1", ".", "1", ".", "1", ",", " ", "2", ".", "2", ".", "2", ".", "2">>,
     <<" ", " ", "3", ".", "3", ".", "3", ".", "3", " ", " ">>, <<",">>, <<" ">>}
RealIP ==
    {<<>>, <<"2", ".", "2", ".", "2", ".", "2">>,
     <<" ", "4", ".", "4", ".", "4", ".", "4", " ">>}
RemoteAddrs ==
    {<<"1", "0", ".", "0", ".", "0", ".", "1", ":", "8", "0">>,
     <<"1", "0", ".", "0", ".", "0", ".", "1">>,
     <<"[", ":", ":", "1", "]", ":", "8", "0">>, <<"[", ":", ":", "1", "]">>,
     <<":", ":", "1">>}

\* the default headers and peer address, the default query
PlainHeaders == [xff |-> <<>>, xri |-> <<>>, remote |-> <<"1", "0", ".", "0", ".", "0", ".", "1", ":", "8", "0">>]
PlainQuery == [city |-> <<"r", "o", "m", "e">>, checkin |-> <<"2", "0", "2", "5", "-", "0", "6", "-", "0", "1">>,
               nights |-> <<"1">>, adults |-> <<"2">>]
Request(h, q) ==
    [xff |-> h.xff, xri |-> h.xri, remote |-> h.remote,
     city |-> q.city, checkin |-> q.checkin, nights |-> q.nights, adults |-> q.adults]

\* queries in which every parameter is absent, malformed or well-formed,
\* in every combination
MixedQueries ==
    {[city |-> c, checkin |-> d, nights |-> n, adults |-> a] :
        c \in {<<>>, PlainQuery.city},
        d \in {<<>>, <<"1", "2", "/", "0", "1", "/", "2", "0", "2", "5">>, PlainQuery.checkin},
        n \in {<<>>, <<"0">>, PlainQuery.nights},
        a \in {<<>>, <<"x">>, PlainQuery.adults}}

\* queries that differ from the default query in one parameter
VariedQueries ==
    {[PlainQuery EXCEPT !.city = c] : c \in QueryCities}
    \cup {[PlainQuery EXCEPT !.checkin = d] : d \in QueryCheckins}
    \cup {[PlainQuery EXCEPT !.nights = n] : n \in QueryNights}
    \cup {[PlainQuery EXCEPT !.adults = a] : a \in QueryAdults}

\* the requests: the queries above from the default peer, and the default
\* query under every combination of the two headers, from every peer, and
\* from every peer under every X-Forwarded-For value
RawRequests ==
    {Request(PlainHeaders, q) : q \in MixedQueries \cup VariedQueries}
    \cup {Request([PlainHeaders EXCEPT !.xff = f, !.xri = x], PlainQuery) :
            f \in ForwardedFor, x \in RealIP}
    \cup {Request([PlainHeaders EXCEPT !.remote = r], PlainQuery) : r \in RemoteAddrs}
    \cup {Request([PlainHeaders EXCEPT !.xff = f, !.remote = r], PlainQuery) :
            f \in ForwardedFor, r \in RemoteAddrs}

\* SearchHandler from its entry to the call of Cache.Key and GetOrFetch:
\* count the request, extract the identity, consult the limiter, validate
FrontHandle(r) ==
    LET ip == ExtractIP(r)
        parsed == ParseSearchParams(r)
    IN  /\ hcount < MaxFront
        /\ hcount' = hcount + 1
        /\ hreq' = r
        /\ hprev' = [req |-> hreq, out |-> hout]
        /\ metrics' = [metrics EXCEPT !.requests = @ + 1]
        /\ buckets' = AllowBuckets(ip)
        /\ hout' = IF ~AllowResult(ip)
                   THEN [NoFront EXCEPT !.ip = ip, !.status = 429,
                                        !.error = "rate limit exceeded", !.stage = "ret"]
                   ELSE IF parsed.err # NoErr
                   THEN [NoFront EXCEPT !.ip = ip, !.status = 400,
                                        !.error = parsed.err, !.stage = "ret"]
                   ELSE [NoFront EXCEPT !.ip = ip, !.params = parsed.params,
                                        !.stage = "fetch"]
        /\ UNCHANGED <<now, rate, window, calls, grants, last, cacheVars, reqVars,
                       client, resp, fan, agg, heap, kin, kout>>

FrontStep == \E r \in RawRequests : FrontHandle(r)

FrontNext == FrontStep /\ UNCHANGED <<allowVars, searchVars, lifeVars>>

\* requests handled one after the other, within one window of the limiter
SpecRequest == PipelineInit /\ [][FrontNext]_vars

\* ======================================================= claims: cache
\* the requests that ran (or are running) the thunk for record r
LeadersOf(r) == {g \in Reqs : role[g] = "leader" /\ myrec[g] = r}

\* the leader of record r
LeaderOf(r) == CHOOSE g \in Reqs : role[g] = "leader" /\ myrec[g] = r

\* the leader's thunk has returned
Fetched(g) == pc[g] \in {"notify", "ret"}

\* the (result, error) pair of the thunk of leader g, as GetOrFetch returns it
LeaderTriple(g) == [result |-> fres[g].result, hit |-> FALSE, err |-> fres[g].err]

\* a thunk outcome that must not be cached
Failure(out) == out.err # NoErr \/ out.result = Nil

\* C1: at most one thunk per key is executing at any time; while it runs the
\* key stays in flight on the leader's record, every record has exactly one
\* leader, and a caller that joined as a waiter never runs a thunk.
C1_SingleFlight ==
    /\ \A k \in Keys : Cardinality({g \in Reqs : pc[g] = "fetch" /\ key[g] = k}) <= 1
    /\ \A g \in Reqs : pc[g] = "fetch" =>
          key[g] \in DOMAIN inflight /\ inflight[key[g]] = myrec[g]
    /\ \A r \in 1..Len(recs) : Cardinality(LeadersOf(r)) = 1
    /\ \A g \in Reqs : role[g] \in {"waiter", "gaveup"} =>
          /\ pc[g] \in {"wait", "ret"}
          /\ fres[g] = [result |-> Nil, err |-> NoErr]
          /\ key[g] = key[LeaderOf(myrec[g])]

\* C1 witness: a leader whose fetch is still running and two waiters on its record.
C1_Witness ==
    \E l \in Reqs : /\ pc[l] = "fetch"
                    /\ Cardinality({g \in Reqs : pc[g] = "wait" /\ myrec[g] = myrec[l]}) >= 2

\* C2: a waiter whose wait ended by the completion signal returns exactly the
\* (result, error) pair the leader's thunk produced, with hit = false, and so
\* does the leader.
C2_WaitersGetLeaderResult ==
    /\ \A g \in Reqs : (role[g] = "waiter" /\ pc[g] = "ret") =>
          /\ Fetched(LeaderOf(myrec[g]))
          /\ ret[g] = LeaderTriple(LeaderOf(myrec[g]))
    /\ \A g \in Reqs : (role[g] = "leader" /\ pc[g] = "ret") => ret[g] = LeaderTriple(g)

\* C2 witness: a leader whose thunk failed and two waiters, all returned
\* with the leader's error.
C2_Witness ==
    \E l \in Reqs :
        /\ role[l] = "leader" /\ pc[l] = "ret" /\ ret[l].err = "fetch failed"
        /\ Cardinality({g \in Reqs : /\ role[g] = "waiter" /\ pc[g] = "ret"
                                     /\ myrec[g] = myrec[l] /\ ret[g] = ret[l]}) >= 2

\* the leader of the latest fetch started on key k, if any fetch was
LatestLeader(k) ==
    CHOOSE g \in Reqs : /\ role[g] = "leader" /\ key[g] = k
                        /\ \A h \in Reqs : (role[h] = "leader" /\ key[h] = k) =>
                                              myrec[h] <= myrec[g]

\* the latest fetch on key k has completed and failed
FailedLast(k) ==
    /\ \E g \in Reqs : role[g] = "leader" /\ key[g] = k
    /\ Fetched(LatestLeader(k))
    /\ Failure(fres[LatestLeader(k)])

\* C3: a fetch that returns an error or a nil result creates or replaces no
\* entry, and the next GetOrFetch on the key (nothing being in flight)
\* reports hit = false and runs its own thunk, however many fetches failed.
C3_FailuresNotCached ==
    [][\A g \in Reqs :
          /\ (pc[g] = "fetch" /\ pc'[g] = "notify" /\ Failure(fres'[g]))
                => entries' = entries
          /\ (pc[g] = "idle" /\ pc'[g] # "idle" /\ FailedLast(key'[g]))
                => (pc'[g] = "fetch" /\ role'[g] = "leader")]_vars

\* C3 witness: on one key, a fetch that returned an error, then one that
\* returned a nil result, then a third caller running its thunk.
C3_Witness ==
    \E a, b, c \in Reqs :
        /\ a < b /\ b < c /\ key[a] = key[b] /\ key[b] = key[c]
        /\ role[a] = "leader" /\ Fetched(a) /\ fres[a].err # NoErr
        /\ role[b] = "leader" /\ Fetched(b) /\ fres[b] = [result |-> Nil, err |-> NoErr]
        /\ pc[c] = "fetch"

\* C4: GetOrFetch reports hit = true iff the key was successfully resolved
\* less than ttl ago and not invalidated since; a hit returns the result of
\* that resolution with a nil error and runs no thunk.
C4_HitIffResolvedWithinTtl ==
    \A g \in Reqs : role[g] # "none" =>
        /\ (role[g] = "hit") <=> seen[g].valid
        /\ role[g] = "hit" =>
              /\ pc[g] = "ret"
              /\ ret[g] = [result |-> seen[g].result, hit |-> TRUE, err |-> NoErr]
              /\ ret[g].result # Nil
              /\ fres[g] = [result |-> Nil, err |-> NoErr]
        /\ (role[g] # "hit" /\ pc[g] = "ret") => ~ret[g].hit

\* C4 witness: a fetch stored its result, a second caller got it as a hit,
\* and a third caller on the same key, the entry having expired without
\* being invalidated, runs its thunk.
C4_Witness ==
    \E a, b, c \in Reqs :
        /\ key[a] = key[b] /\ key[b] = key[c]
        /\ role[a] = "leader" /\ role[b] = "hit" /\ ret[b].result = myrec[a]
        /\ pc[c] = "fetch"
        /\ key[a] \in DOMAIN resolved /\ resolved[key[a]].result = myrec[a]
        /\ key[a] \in DOMAIN entries

\* the step by which waiter g gives up: what it returns and what it leaves alone
C5_Step(g) ==
    /\ ret'[g] = [result |-> Nil, hit |-> FALSE, err |-> "canceled"]
    /\ ctx[g] = "canceled"
    /\ fres'[g] = [result |-> Nil, err |-> NoErr]
    /\ UNCHANGED <<entries, inflight, recs>>
    /\ \A h \in Reqs \ {g} : pc'[h] = pc[h] /\ ret'[h] = ret[h] /\ role'[h] = role[h]
    /\ pc[LeaderOf(myrec[g])] = "fetch" => inflight[key[g]] = myrec[g]

\* what holds of g's record once g has given up
C5_After(g) ==
    LET l == LeaderOf(myrec[g])
    IN  /\ Fetched(l) => /\ recs[myrec[g]].result = fres[l].result
                         /\ recs[myrec[g]].err = fres[l].err
        /\ \A h \in Reqs : (role[h] = "waiter" /\ myrec[h] = myrec[g] /\ pc[h] = "ret")
                              => ret[h] = LeaderTriple(l)

\* C5: a waiter whose context is canceled returns (nil, false, cause) and
\* runs no thunk; its return changes nothing of the cache and of the other
\* callers; the other waiters on the record still get the leader's outcome,
\* which the record holds once the leader has stored.
C5_CanceledWaiter ==
    [][\A g \in Reqs :
          /\ (role[g] = "waiter" /\ role'[g] = "gaveup") => C5_Step(g)
          /\ role'[g] = "gaveup" => C5_After(g)']_vars

\* C5 witness: a waiter gave up on cancellation, the leader then stored a
\* successful result, and another waiter on the same record returned it.
C5_Witness ==
    \E g, h \in Reqs :
        /\ role[g] = "gaveup" /\ role[h] = "waiter" /\ myrec[h] = myrec[g]
        /\ pc[h] = "ret" /\ ret[h].result = myrec[g] /\ ret[h].err = NoErr
        /\ key[g] \in DOMAIN entries /\ entries[key[g]].result = myrec[g]

\* ================================================ claims: rate limiter
\* number of Allow(k) calls that returned true at times s..e-1
GrantsIn(k, s, e) == SumOver(grants[k], {t \in Times : s <= t /\ t < e})

\* number of Allow(k) calls made at times s..e-1
CallsIn(k, s, e) == SumOver(calls[k], {t \in Times : s <= t /\ t < e})

\* the time of the first Allow(k) call made at or after `from`, or -1
FirstCall(k, from) ==
    IF \E t \in Times : t >= from /\ calls[k][t] > 0
    THEN CHOOSE t \in Times : /\ t >= from /\ calls[k][t] > 0
                              /\ \A u \in Times : (u >= from /\ calls[k][u] > 0) => t <= u
    ELSE -1

\* C7 as stated (for positive rates): every interval of duration `window`,
\* wherever it starts, holds at most `rate` Allow(key) calls that returned true.
C7_AnyIntervalAtMostRate ==
    rate > 0 =>
        \A k \in Clients : \A s \in Times : GrantsIn(k, s, s + window) <= rate

\* C7 amended: within the fixed window of a bucket (from its window_start to
\* the next refill) at most max(rate, 0) calls return true, and an interval of
\* duration `window` that straddles a refill holds at most max(2*rate - 1, 0).
C7_FixedWindowBound ==
    /\ \A k \in DOMAIN buckets :
          GrantsIn(k, buckets[k].lastReset, MaxTime + 1) <= Max(rate, 0)
    /\ \A k \in Clients : \A s \in Times :
          GrantsIn(k, s, s + window) <= Max(2 * rate - 1, 0)

\* C7 witness: an interval of duration `window` straddling a refill that
\* holds more than `rate` granted calls.
C7_Witness ==
    /\ rate = 2
    /\ \E k \in Clients : \E s \in Times : GrantsIn(k, s, s + window) = 3

\* C8 as stated: every bucket satisfies 0 <= tokens <= rate, for every rate.
C8_TokensBetweenZeroAndRate ==
    \A k \in DOMAIN buckets : 0 <= buckets[k].tokens /\ buckets[k].tokens <= rate

\* C8 amended: every bucket satisfies min(0, rate) <= tokens <= max(0, rate);
\* so 0 <= tokens <= rate when rate >= 0, and tokens = rate when rate < 0.
C8_TokensBounded ==
    \A k \in DOMAIN buckets :
        /\ Min(0, rate) <= buckets[k].tokens
        /\ buckets[k].tokens <= Max(0, rate)
        /\ rate < 0 => buckets[k].tokens = rate

\* C8 witness: under a negative rate, a bucket that an Allow call refilled
\* after its window had passed, while the sweeper deleted another key's bucket.
C8_Witness ==
    /\ rate < 0
    /\ last.seq >= 3 /\ last.refilled /\ last.at >= window
    /\ last.key \in DOMAIN buckets /\ buckets[last.key].tokens = rate
    /\ CallsIn(last.key, 0, last.at) > 0
    /\ \E k \in Clients : k \notin DOMAIN buckets /\ CallsIn(k, 0, MaxTime + 1) > 0

\* C9: with rate <= 0 no Allow call ever returns true, calls made after one
\* or more windows have elapsed (which refill the bucket) included.
C9_NonPositiveRateDeniesAll ==
    rate <= 0 =>
        /\ ~last.ok
        /\ \A k \in Clients : \A t \in Times : grants[k][t] = 0

\* C9 witness: under a negative rate, a call on an existing bucket made when
\* at least two windows had elapsed, which refilled it.
C9_Witness ==
    /\ rate < 0
    /\ last.seq >= 3
    /\ last.refilled
    /\ CallsIn(last.key, 0, last.at - 2 * window + 1) > 0

\* what the Allow(k) call of this step must return, by the window it falls
\* in: the first window of the key, the one opened by the first refill, or later
C10_Step(k) ==
    LET t0 == FirstCall(k, 0)
        r  == IF t0 < 0 THEN -1 ELSE FirstCall(k, t0 + window)
    IN  IF t0 < 0 \/ now < t0 + window
        THEN last'.ok = (CallsIn(k, 0, MaxTime + 1) < rate)
        ELSE IF r < 0
        THEN /\ last'.ok
             /\ buckets'[k] = [tokens |-> rate - 1, lastReset |-> now]
        ELSE (now < r + window) => (last'.ok = (CallsIn(k, r, MaxTime + 1) < rate))

\* C10: for rate > 0, on a fresh key the first `rate` calls made less than
\* `window` after the first call return true and every further call in that
\* span returns false; the first call at or after window_start + window
\* returns true and leaves the bucket with rate - 1 tokens and window_start
\* equal to that call's time, and the calls that follow it in the new window
\* are allowed until `rate` of them were.
C10_WindowSemantics ==
    [][\A k \in Clients : (rate > 0 /\ calls'[k] # calls[k]) => C10_Step(k)]_vars

\* C10 witness (rate 2, window 2): three calls at time 0 of which the first
\* two were allowed, then two allowed calls at time 2 = window_start + window.
C10_Witness ==
    /\ rate = 2 /\ window = 2
    /\ \E k \in Clients :
          /\ calls[k][0] = 3 /\ grants[k][0] = 2
          /\ calls[k][1] = 0
          /\ calls[k][2] = 2 /\ grants[k][2] = 2

\* C12: buckets are independent per key: a call of Allow(k) creates,
\* deletes and changes no bucket of another key, and leaves what Allow
\* would return for every other key as it was.
C12_KeysIndependent ==
    [][\A k \in Clients : calls'[k] # calls[k] =>
          \A j \in Clients \ {k} :
              /\ (j \in DOMAIN buckets') <=> (j \in DOMAIN buckets)
              /\ j \in DOMAIN buckets => buckets'[j] = buckets[j]
              /\ AllowResult(j)' = AllowResult(j)]_vars

\* C12 witness: one key is exhausted and was just denied, and the latest
\* call, on another key at the same instant, was allowed.
C12_Witness ==
    /\ rate > 0 /\ last.ok
    /\ \E k \in DOMAIN buckets \ {last.key} :
          /\ buckets[k].tokens = 0
          /\ buckets[k].lastReset <= last.at /\ last.at - buckets[k].lastReset < window
          /\ calls[k][last.at] > grants[k][last.at]

\* the goroutines that have entered Allow(k), and those that have returned
CallersOf(k) == {g \in Reqs : acall[g].pc # "idle" /\ acall[g].key = k}
ReturnedOf(k) == {g \in CallersOf(k) : acall[g].pc = "done"}

\* all calls of Allow(k) so far fall within one window of the earliest one
WithinOneWindow(k) ==
    \A g, h \in CallersOf(k) : acall[h].t - acall[g].t < window

\* C11: Allow is atomic under concurrency: for rate >= 0, of the n
\* goroutines that called Allow on a fresh key within one window and have
\* returned, exactly min(n, rate) got true; the bucket holds the rate less
\* the tokens granted (none consumed twice, none lost) once no call is
\* under way, until the sweeper reclaims it; and at most one goroutine is
\* inside Allow's body.
C11_AllowAtomic ==
    /\ \A k \in Clients : (rate >= 0 /\ WithinOneWindow(k)) =>
          /\ Cardinality({g \in ReturnedOf(k) : acall[g].ok})
                = Min(Cardinality(ReturnedOf(k)), rate)
          /\ (ReturnedOf(k) = CallersOf(k) /\ k \in DOMAIN buckets) =>
                buckets[k].tokens = rate - Cardinality({g \in ReturnedOf(k) : acall[g].ok})
    /\ Cardinality({g \in Reqs : acall[g].pc \notin {"idle", "done"}}) <= 1

\* C11 witness: rate 2, three goroutines called Allow on one fresh key
\* at the same instant, and exactly two of them got true.
C11_Witness ==
    /\ rate = 2
    /\ \E k \in Clients :
          /\ Cardinality(ReturnedOf(k)) = 3
          /\ \A g, h \in ReturnedOf(k) : acall[g].t = acall[h].t
          /\ Cardinality({g \in ReturnedOf(k) : acall[g].ok}) = 2

\* ==================================================== claims: aggregator
\* the providers that returned without error, and those that returned one
OkProviders == {p \in Providers : prov[p].status = "ok"}
FailedProviders == {p \in Providers : prov[p].status = "failed"}

\* Search has returned a result
Succeeded == spc = "done" /\ ~sret.result.isNil

\* C13: every successful result has providers_succeeded + providers_failed
\* = providers_total = the number of configured providers; succeeded counts
\* exactly the providers that returned without error, whatever their rows,
\* failed exactly those that returned an error; and each provider is
\* invoked exactly once.
C13_CountsAddUp ==
    /\ Succeeded =>
          /\ sret.result.ProvidersSucceeded + sret.result.ProvidersFailed
                = sret.result.ProvidersTotal
          /\ sret.result.ProvidersTotal = Cardinality(Providers)
          /\ sret.result.ProvidersSucceeded = Cardinality(OkProviders)
          /\ sret.result.ProvidersFailed = Cardinality(FailedProviders)
    /\ spc # "idle" => \A p \in Providers : prov[p].calls = 1

\* C13 witness: a result with no hotels, from a provider all of whose rows
\* were rejected, counted as succeeded, and a provider that failed.
C13_Witness ==
    /\ Succeeded
    /\ sret.result.Hotels = <<>>
    /\ sret.result.ProvidersSucceeded = 1 /\ sret.result.ProvidersFailed = 1
    /\ \E p \in OkProviders : Len(prov[p].rows) = 2

\* C19: Search returns (nil, error) iff every provider returned an error,
\* the error being one of theirs; otherwise it returns a non-nil result and
\* a nil error, even when no hotel passed normalization.
C19_ErrorIffAllFailed ==
    spc = "done" =>
        /\ sret.result.isNil <=> FailedProviders = Providers
        /\ sret.result.isNil <=> sret.err # NoErr
        /\ sret.result.isNil => \E p \in Providers : sret.err = prov[p].err

\* C19 witness: both providers failed, with different errors, and Search
\* returned nil and the error of the one that failed first.
C19_Witness ==
    /\ spc = "done"
    /\ sret.result.isNil
    /\ FailedProviders = Providers
    /\ \E p, q \in Providers : prov[p].err # prov[q].err /\ sret.err = prov[p].err
    /\ sret.err = errors[1]

\* the hotels of the result Search returned
ResultHotels == {sret.result.Hotels[n] : n \in 1..Len(sret.result.Hotels)}

\* the rows returned by the providers that succeeded
ReturnedRows == UNION {{prov[p].rows[n] : n \in 1..Len(prov[p].rows)} : p \in OkProviders}

\* a row that the normalizer is specified to accept: non-blank id and name,
\* and a price that is greater than zero
ValidRow(r) ==
    /\ TrimSpace(r.HotelID) # <<>>
    /\ TrimSpace(r.Name) # <<>>
    /\ FLt(0, r.Price)

\* C14: the hotels of every successful result are sorted by non-decreasing
\* price.  A row with a NaN price passes normalizeHotel and the sort cannot
\* order it, so this does not hold.
C14_SortedByPrice ==
    Succeeded =>
        \A a, b \in 1..Len(sret.result.Hotels) :
            a < b => FLe(sret.result.Hotels[a].Price, sret.result.Hotels[b].Price)

\* C15: the result holds no two hotels of the same hotel_id, and for every
\* trimmed hotel_id of a valid row of a successful provider exactly one
\* entry, whose price is the minimum over the valid rows of that id and
\* which is the first-merged entry of that price.  A row with a NaN price
\* that is merged first is never replaced, so this does not hold.
C15_DedupMinPrice ==
    Succeeded =>
        /\ \A a, b \in 1..Len(sret.result.Hotels) :
              a # b => sret.result.Hotels[a].HotelID # sret.result.Hotels[b].HotelID
        /\ \A r \in {x \in ReturnedRows : ValidRow(x)} :
              \E h \in ResultHotels :
                  /\ h.HotelID = TrimSpace(r.HotelID)
                  /\ FLe(h.Price, r.Price)
                  /\ \E x \in ReturnedRows :
                        ValidRow(x) /\ TrimSpace(x.HotelID) = h.HotelID /\ x.Price = h.Price
                  /\ \E n \in 1..Len(merged) :
                        /\ merged[n] = h
                        /\ \A m \in 1..(n - 1) :
                              ~(merged[m].HotelID = h.HotelID /\ merged[m].Price = h.Price)

\* C16: every hotel of every result has a non-empty trimmed hotel_id and
\* name, a non-empty upper-case currency and a price > 0, and comes from a
\* row whose id and name are not blank and whose price is not <= 0.  A row
\* with a NaN price passes normalizeHotel, so the price need not be > 0.
C16_HotelsWellFormed ==
    \A h \in ResultHotels :
        /\ h.HotelID # <<>> /\ TrimSpace(h.HotelID) = h.HotelID
        /\ h.Name # <<>> /\ TrimSpace(h.Name) = h.Name
        /\ h.Currency # <<>>
        /\ \A n \in 1..Len(h.Currency) :
              \A m \in 1..Len(LowerLetters) : h.Currency[n] # LowerLetters[m]
        /\ FLt(0, h.Price)
        /\ \E r \in ReturnedRows :
              /\ TrimSpace(r.HotelID) = h.HotelID /\ TrimSpace(r.Name) = h.Name
              /\ r.Price = h.Price /\ ~FLe(r.Price, 0)

\* a string of three upper-case letters
IsCode(c) ==
    /\ Len(c) = 3
    /\ \A n \in 1..Len(c) : \E m \in 1..Len(UpperLetters) : c[n] = UpperLetters[m]

\* C17 as stated: the currency of every hotel emitted is an upper-case
\* 3-letter code.
C17_CurrencyIsCode ==
    \A h \in ResultHotels : IsCode(h.Currency)

\* C17 amended: the currency of every hotel emitted is non-empty, without
\* surrounding white space and without lower-case letters; it is "EUR" when
\* the provider reported a blank currency, and an upper-case 3-letter code
\* unless the provider reported a currency that, trimmed, is neither empty
\* nor three characters long, which is passed on upper-cased.
C17_CurrencyUpperNonEmpty ==
    \A h \in ResultHotels :
        /\ h.Currency # <<>> /\ TrimSpace(h.Currency) = h.Currency
        /\ \A n \in 1..Len(h.Currency) :
              \A m \in 1..Len(LowerLetters) : h.Currency[n] # LowerLetters[m]
        /\ \E r \in ReturnedRows :
              /\ TrimSpace(r.HotelID) = h.HotelID /\ TrimSpace(r.Name) = h.Name
              /\ r.Price = h.Price
              /\ Len(h.Currency) = IF TrimSpace(r.Currency) = <<>> THEN 3
                                   ELSE Len(TrimSpace(r.Currency))
              /\ TrimSpace(r.Currency) = <<>> => h.Currency = EUR
              /\ Len(TrimSpace(r.Currency)) \in {0, 3} => IsCode(h.Currency)

\* C17 witness: a result with a hotel whose currency is the two letters
\* "US" and a hotel whose blank currency became "EUR".
C17_Witness ==
    /\ Succeeded
    /\ \E h \in ResultHotels : h.Currency = <<"U", "S">>
    /\ \E h \in ResultHotels :
          /\ h.Currency = EUR
          /\ \E r \in ReturnedRows :
                TrimSpace(r.HotelID) = h.HotelID /\ r.Price = h.Price /\ r.Currency = <<>>

\* C18: the normalizer rejects a row whose price is NaN, so no hotel with a
\* NaN price is merged, sorted or emitted.  h.Price <= 0 is false for NaN,
\* so this does not hold.
C18_NaNRejected ==
    /\ \A n \in 1..Len(merged) : merged[n].Price # NaN
    /\ \A k \in DOMAIN hotelMap : hotelMap[k].Price # NaN
    /\ \A h \in ResultHotels : h.Price # NaN

\* C20: if the parent context is canceled while the fan-out is in flight,
\* Search returns the cancellation error and no result, however many
\* providers had succeeded before.  Search returns an error only if every
\* provider failed, so this does not hold; the providers that were still
\* running at the cancellation are taken to honor it.
C20_CancelSurfaces ==
    (/\ spc = "done"
     /\ cancelRunning # {}
     /\ \A p \in cancelRunning : prov[p].status = "failed" /\ prov[p].err = "canceled")
        => (sret.result.isNil /\ sret.err = "canceled")

\* the providers that gave up because the deadline of Search had elapsed
TimedOutProviders == {p \in Providers : prov[p].status = "failed" /\ prov[p].err = "deadline exceeded"}

\* C21: when the deadline of Search elapses, the providers that had not
\* returned are counted as failed and contribute no hotels, and every
\* provider that returned without error is still counted as succeeded, with
\* the hotel of each of its valid rows in the result.
C21_DeadlineIsolation ==
    (spc = "done" /\ TimedOutProviders # {}) =>
        /\ \A p \in TimedOutProviders : prov[p].rows = <<>>
        /\ failed = Cardinality(FailedProviders)
        /\ succeeded = Cardinality(OkProviders)
        /\ OkProviders # {} =>
              /\ Succeeded
              /\ sret.result.ProvidersSucceeded = Cardinality(OkProviders)
              /\ sret.result.ProvidersFailed = Cardinality(FailedProviders)
              /\ \A r \in ReturnedRows :
                    ValidRow(r) => \E h \in ResultHotels : h.HotelID = TrimSpace(r.HotelID)
              /\ \A h \in ResultHotels :
                    \E r \in ReturnedRows : h.HotelID = TrimSpace(r.HotelID)

\* C21 witness: one provider returned a valid row, the other timed out, and
\* Search returned a result with the hotel of the first.
C21_Witness ==
    /\ spc = "done"
    /\ now >= deadline
    /\ TimedOutProviders # {}
    /\ \E p \in OkProviders : \E n \in 1..Len(prov[p].rows) : ValidRow(prov[p].rows[n])
    /\ Succeeded
    /\ sret.result.Hotels # <<>>

\* the map Search builds from the same responses when the goroutine of p1
\* merges before the one of p2
MapInListedOrder == MergeRows(MergeRows(EmptyMap, prov["p1"].rows), prov["p2"].rows)

\* the (hotel_id, price) pairs of the values of a map
PairsOf(hm) == {<<hm[k].HotelID, hm[k].Price>> : k \in DOMAIN hm}

\* C22: for fixed provider responses every completion order yields the same
\* (hotel_id, price) pairs and the same counts, i.e. those of the listed
\* order.  A NaN price is never replaced and never replaces, so the pair of
\* its hotel_id depends on which row was merged first.
C22_OrderIndependentPairs ==
    Succeeded =>
        /\ {<<h.HotelID, h.Price>> : h \in ResultHotels} = PairsOf(MapInListedOrder)
        /\ sret.result.ProvidersSucceeded = Cardinality(OkProviders)
        /\ sret.result.ProvidersFailed = Cardinality(FailedProviders)

\* the values of a map
ValuesOf(hm) == {hm[k] : k \in DOMAIN hm}

\* two merged hotels of one hotel_id that differ and of which neither is
\* strictly cheaper (equal prices, or a NaN price)
Unordered(a, b) ==
    /\ a.HotelID = b.HotelID
    /\ a # b
    /\ ~FLt(a.Price, b.Price)
    /\ ~FLt(b.Price, a.Price)

\* C23 as stated: for fixed provider responses the full Hotel records of
\* the result are the same under every completion order, i.e. those of the
\* listed order.
C23_SameRecords ==
    Succeeded => ResultHotels = ValuesOf(MapInListedOrder)

\* C23 amended: under every completion order the result has the same
\* hotel_ids, and the entry of a hotel_id is the whole normalized record of
\* one returned row, than which no row of that id is strictly cheaper, and
\* the first merged of those with its price; the records are the same under
\* every order when no two differing rows of one hotel_id are unordered.
C23_FirstMergedKept ==
    Succeeded =>
        LET listed == MapInListedOrder
            hotels == ResultHotels
        IN  /\ {h.HotelID : h \in hotels} = DOMAIN listed
            /\ \A h \in hotels :
                  \E n \in 1..Len(merged) :
                      /\ merged[n] = h
                      /\ \A m \in 1..Len(merged) :
                            merged[m].HotelID = h.HotelID =>
                                /\ ~FLt(merged[m].Price, h.Price)
                                /\ (m < n => merged[m].Price # h.Price)
            /\ (\A a, b \in 1..Len(merged) : ~Unordered(merged[a], merged[b]))
                  => hotels = ValuesOf(listed)

\* C23 witness: p2 returned before p1, both reported hotel h1 at the same
\* price under different names, and the result carries the record of p2.
C23_Witness ==
    /\ Succeeded
    /\ OkProviders = Providers
    /\ \E a, b \in 1..Len(merged) : a < b /\ Unordered(merged[a], merged[b])
                                    /\ merged[a].Price = merged[b].Price
    /\ ResultHotels # ValuesOf(MapInListedOrder)

\* ===================================================== claims: pipeline
\* C6: in the request pipeline, cancellation of one participant's request
\* context never aborts the shared fan-out while another participant with a
\* live context waits for it: a waiter whose own context is live never
\* receives the cancellation of somebody else's context as its error.
\* SearchHandler hands the leader's r.Context() to Aggregator.Search, so
\* this does not hold.
C6_LiveWaiterNotAborted ==
    \A g \in Reqs :
        (role[g] = "waiter" /\ pc[g] = "ret" /\ ctx[g] = "live")
            => /\ ret[g].err # "canceled"
               /\ resp[g].status # 500 \/ recs[myrec[g]].err # "canceled"


\* request g has entered SearchHandler
Arrived(g) == pc[g] # "idle"

\* the requests of identity ip that passed the limiter
AdmittedOf(ip) == {h \in Reqs : Arrived(h) /\ client[h] = ip /\ resp[h].status # 429}

\* the answer 429 "rate limit exceeded"
RateLimited(r) == r.status = 429 /\ r.error = "rate limit exceeded"

\* C24: the limiter is consulted before anything else: a request is
\* answered 429 "rate limit exceeded" iff Allow(identity) returned false,
\* whatever its parameters, and then it gets no cache key, takes no part in
\* the cache and starts no fan-out; within the first window the request of
\* an identity that follows `rate` admitted ones is rejected.
C24_LimiterFirst ==
    [][\A g \in Reqs :
          /\ (~Arrived(g) /\ Arrived(g)') =>
                /\ RateLimited(resp'[g]) <=> ~AllowResult(client'[g])
                /\ resp'[g].status = 429 <=> ~AllowResult(client'[g])
                /\ now < AppWindow =>
                      (RateLimited(resp'[g]) <=>
                          Cardinality(AdmittedOf(client'[g])) >= AppRate)
                /\ RateLimited(resp'[g]) =>
                      /\ pc'[g] = "ret"
                      /\ key'[g] = ""
                      /\ UNCHANGED <<cacheVars, role, myrec, fan, agg, heap>>
          /\ RateLimited(resp[g]) =>
                /\ UNCHANGED <<pc[g], key[g], role[g], myrec[g], fan[g], resp[g]>>
      ]_vars

\* C24 witness: the second request of an identity within the window is
\* answered 429 after the first was admitted and answered 200.
C24_Witness ==
    \E g, h \in Reqs :
        /\ g < h
        /\ client[g] = client[h]
        /\ resp[g].status = 200
        /\ RateLimited(resp[h])
        /\ key[h] = ""
        /\ now < AppWindow


\* the fan-out led by g has returned with every provider failed
FetchFailed(g) ==
    role[g] = "leader" /\ pc[g] \in {"notify", "ret"} /\ fres[g].err # NoErr

\* every fetch started for the key of g so far has failed, and none runs
OnlyFailuresBefore(g) ==
    /\ \E h \in Reqs \ {g} : key[h] = key[g] /\ FetchFailed(h)
    /\ \A h \in Reqs \ {g} : (key[h] = key[g] /\ role[h] = "leader") => FetchFailed(h)

\* C25: when every provider fails the handler answers 500 with exactly the
\* message "search failed", and the failure is not memoized: nothing is
\* stored, the key is no longer in flight, and the next admitted request
\* for the key starts a new fan-out instead of getting an error or a hit.
C25_FailureNotMemoized ==
    [][\A g \in Reqs :
          /\ (pc[g] = "fanout" /\ pc'[g] = "notify"
                  /\ agg[g].failed = Cardinality(Providers)) =>
                /\ fres'[g].result = Nil
                /\ fres'[g].err = agg[g].errors[1]
                /\ entries' = entries
                /\ key[g] \notin DOMAIN inflight'
          /\ (pc'[g] = "ret" /\ pc[g] # "ret" /\ FetchFailed(g)') =>
                resp'[g] = [status |-> 500, error |-> "search failed", cache |-> ""]
          /\ (pc[g] = "enter" /\ pc'[g] # "enter" /\ OnlyFailuresBefore(g)) =>
                /\ role'[g] = "leader"
                /\ pc'[g] = "fetch"
                /\ myrec'[g] \notin {myrec[h] : h \in Reqs}
      ]_vars

\* C25 witness: the fan-out of one request failed on every provider and was
\* answered 500, and a later request for the same key leads a new fan-out.
C25_Witness ==
    \E g, h \in Reqs :
        /\ key[g] = key[h]
        /\ FetchFailed(g)
        /\ resp[g].status = 500
        /\ role[h] = "leader"
        /\ myrec[h] # myrec[g]
        /\ pc[h] = "fanout"


\* ==================================================== Cache.Key on pairs
\* validated queries as ParseSearchParams returns them: a trimmed non-blank
\* city, which may contain ':', a date, and two positive integers
ValidatedQueries ==
    {[city |-> c, checkin |-> d, nights |-> n, adults |-> a] :
        c \in {"a", "a:1", "a:2025-06-01", "a:2025-06-01:1", "1", "1:1"},
        d \in {"2025-06-01", "2025-06-11"},
        n \in {1, 2, 11},
        a \in {1, 2, 11}}

\* the handler computes the keys of two validated queries
KeyPair(q1, q2) ==
    /\ kout = <<>>
    /\ kin' = <<q1, q2>>
    /\ kout' = <<Key(q1.city, q1.checkin, q1.nights, q1.adults),
                 Key(q2.city, q2.checkin, q2.nights, q2.adults)>>
    /\ UNCHANGED <<now, limiterVars, cacheVars, reqVars, pipeVars, hreq, hprev, hout, hcount>>

KeyStep == \E q1, q2 \in ValidatedQueries : KeyPair(q1, q2)

KeyNext == KeyStep /\ UNCHANGED <<allowVars, searchVars, lifeVars>>

SpecKey == PipelineInit /\ [][KeyNext]_vars

\* ================================================ claims: request front
\* Blank strings, and what trimming a string of white space leaves
Blank(str) == \A n \in 1..Len(str) : IsSpace(str[n])
Stripped(str, out) ==
    /\ out # <<>>
    /\ ~IsSpace(out[1])
    /\ ~IsSpace(out[Len(out)])
    /\ \E a \in 0..Len(str) :
          /\ a + Len(out) <= Len(str)
          /\ SubSeq(str, a + 1, a + Len(out)) = out
          /\ Blank(SubSeq(str, 1, a))
          /\ Blank(SubSeq(str, a + Len(out) + 1, Len(str)))
TrimsTo(str, out) == IF Blank(str) THEN out = <<>> ELSE Stripped(str, out)

\* strconv.Itoa of a natural number, and the number padded with zeros
RECURSIVE Itoa(_)
Itoa(n) ==
    IF n < 10 THEN <<Digits[n + 1]>> ELSE Itoa(n \div 10) \o <<Digits[(n % 10) + 1]>>
RECURSIVE Padded(_, _)
Padded(n, w) == IF Len(Itoa(n)) >= w THEN Itoa(n) ELSE <<"0">> \o Padded(n, w - 1)

\* the largest number a request gives for nights or adults
MaxNumber == 12

\* the years the requests name, the leap years among them, the calendar
CalendarYears == {1900, 2000, 2024, 2025}
LeapYears == {2000, 2024}
DateText(y, m, d) == Padded(y, 4) \o <<"-">> \o Padded(m, 2) \o <<"-">> \o Padded(d, 2)
CalendarDates ==
    {DateText(y, m, d) : y \in CalendarYears, m \in 1..12, d \in 1..28}
    \cup {DateText(y, m, d) : y \in CalendarYears, m \in (1..12) \ {2}, d \in 29..30}
    \cup {DateText(y, m, 31) : y \in CalendarYears, m \in {1, 3, 5, 7, 8, 10, 12}}
    \cup {DateText(y, 2, 29) : y \in LeapYears}

\* the decimal texts of the integer n > 0: an optional "+", leading zeros
DecimalsOf(n) ==
    {s \o z \o Itoa(n) : s \in {<<>>, <<"+">>}, z \in {<<>>, <<"0">>}}
IsPositiveInteger(str) == \E n \in 1..MaxNumber : str \in DecimalsOf(n)
IsDate(str) == \E d \in CalendarDates : Stripped(str, d)

\* the message of the first parameter, in the order city, checkin, nights,
\* adults, that is missing or malformed
FirstFailure(q) ==
    IF Blank(q.city) THEN "city is required"
    ELSE IF Blank(q.checkin) THEN "checkin is required"
    ELSE IF ~IsDate(q.checkin) THEN "checkin must be in YYYY-MM-DD format"
    ELSE IF q.nights = <<>> THEN "nights is required"
    ELSE IF ~IsPositiveInteger(q.nights) THEN "nights must be a positive integer"
    ELSE IF q.adults = <<>> THEN "adults is required"
    ELSE IF ~IsPositiveInteger(q.adults) THEN "adults must be a positive integer"
    ELSE NoErr

HostPortAt(addr, i) ==
    /\ addr[i] = ":"
    /\ \A n \in 1..Len(addr) : n # i => addr[n] \notin {":", "[", "]"}
BracketedAt(addr, i) ==
    /\ i >= 3
    /\ addr[1] = "[" /\ addr[i - 1] = "]" /\ addr[i] = ":"
    /\ \A n \in 2..(i - 2) : addr[n] \notin {"[", "]"}
    /\ \A n \in (i + 1)..Len(addr) : addr[n] \notin {":", "[", "]"}

\* ip is the peer address without its trailing port, or the peer address
\* itself if it has none
PeerHost(addr, ip) ==
    \/ \E i \in 1..Len(addr) : HostPortAt(addr, i) /\ ip = SubSeq(addr, 1, i - 1)
    \/ \E i \in 1..Len(addr) : BracketedAt(addr, i) /\ ip = SubSeq(addr, 2, i - 2)
    \/ /\ \A i \in 1..Len(addr) : ~HostPortAt(addr, i) /\ ~BracketedAt(addr, i)
       /\ ip = addr

\* ip is the first comma-separated entry of the header value, trimmed
FirstEntry(value, ip) ==
    \E i \in 1..(Len(value) + 1) :
        /\ i <= Len(value) => value[i] = ","
        /\ \A n \in 1..(i - 1) : value[n] # ","
        /\ TrimsTo(SubSeq(value, 1, i - 1), ip)

\* C27: the client identity is, by strict precedence, the trimmed first
\* comma-separated entry of X-Forwarded-For if that header is not empty,
\* else the trimmed X-Real-IP if that is not empty, else the peer address
\* without its port (and brackets), or unchanged if it has no port; it is
\* the key the limiter is asked about.
C27_IdentityPrecedence ==
    hcount > 0 =>
        /\ hreq.xff # <<>> => FirstEntry(hreq.xff, hout.ip)
        /\ (hreq.xff = <<>> /\ hreq.xri # <<>>) => TrimsTo(hreq.xri, hout.ip)
        /\ (hreq.xff = <<>> /\ hreq.xri = <<>>) => PeerHost(hreq.remote, hout.ip)
        /\ hout.ip \in DOMAIN buckets

\* C27 witness: a request with a forward chain of two entries and a real-IP
\* header was given the first entry of the chain as its identity.
C27_Witness ==
    /\ hcount > 0
    /\ \E n \in 1..Len(hreq.xff) : hreq.xff[n] = ","
    /\ hreq.xri # <<>>
    /\ hout.ip = <<"1", ".", "1", ".", "1", ".", "1">>
    /\ hout.ip # TrimSpace(hreq.xri)


\* C28: the cache key is "<city>:<checkin>:<nights>:<adults>", a function of
\* its four arguments, and two validated queries that differ in city,
\* checkin, nights or adults never have the same key, also when a city
\* contains ':'.
C28_KeyInjective ==
    kout # <<>> =>
        /\ kin[1] = kin[2] => kout[1] = kout[2]
        /\ kout[1] = kout[2] => kin[1] = kin[2]
        /\ \A n \in 1..2 :
              /\ Len(kout[n]) = Len(kin[n].city) + Len(kin[n].checkin)
                                  + Len(ToString(kin[n].nights))
                                  + Len(ToString(kin[n].adults)) + 3
              /\ kin[n] = [city |-> "a:2025-06-01:1", checkin |-> "2025-06-11",
                           nights |-> 11, adults |-> 2]
                    => kout[n] = "a:2025-06-01:1:2025-06-11:11:2"

\* C28 witness: a city that contains ':' and ends like the checkin and
\* nights of the other query; the keys differ.
C28_Witness ==
    /\ kout # <<>>
    /\ kin[1] = [city |-> "a:2025-06-01:1", checkin |-> "2025-06-01", nights |-> 1,
                 adults |-> 1]
    /\ kin[2] = [city |-> "a", checkin |-> "2025-06-01", nights |-> 1, adults |-> 1]
    /\ kout[1] = "a:2025-06-01:1:2025-06-01:1:1"
    /\ kout[2] = "a:2025-06-01:1:1"


\* ================================================ claims: cached results
\* C29: the store test is exactly err == nil and result != nil: every result
\* Search returns is stored under the key with expires_at = completion time
\* + ttl whatever it holds, and nothing is stored for a failure; an
\* unexpired entry, also one with zero hotels or with failed providers, is
\* returned as a hit to a later request for the key, which starts no
\* fan-out.
C29_EmptyResultsCached ==
    [][\A g \in Reqs :
          /\ (pc[g] = "fanout" /\ pc'[g] = "notify") =>
                IF agg[g].failed < Cardinality(Providers)
                THEN /\ fres'[g].err = NoErr
                     /\ fres'[g].result \in DOMAIN heap'
                     /\ heap'[fres'[g].result].succeeded = agg[g].succeeded
                     /\ heap'[fres'[g].result].failed = agg[g].failed
                     /\ key[g] \in DOMAIN entries'
                     /\ entries'[key[g]] = [result |-> fres'[g].result,
                                            expiresAt |-> now + TTL]
                ELSE /\ fres'[g].err # NoErr
                     /\ entries' = entries
          /\ (pc[g] = "enter" /\ pc'[g] # "enter"
                  /\ key[g] \in DOMAIN entries /\ now < entries[key[g]].expiresAt) =>
                /\ ret'[g] = [result |-> entries[key[g]].result, hit |-> TRUE,
                              err |-> NoErr]
                /\ resp'[g] = [status |-> 200, error |-> "", cache |-> "hit"]
                /\ pc'[g] = "ret"
                /\ UNCHANGED <<fan, agg, heap, entries, inflight>>
      ]_vars

\* C29 witness: a request was answered with a hit whose result has zero
\* hotels and records a failed provider.
C29_Witness ==
    \E g \in Reqs :
        /\ pc[g] = "ret"
        /\ ret[g].hit
        /\ resp[g].cache = "hit"
        /\ heap[ret[g].result].hotels = 0
        /\ heap[ret[g].result].failed > 0
        /\ \A p \in Providers : fan[g][p] = "none"


\* the in-flight table maps some key to record r
Registered(r) == \E k \in DOMAIN inflight : inflight[k] = r

\* goroutine g takes the step from pc a to pc b
Moves(g, a, b) == pc[g] = a /\ pc'[g] = b

\* C30 as stated: whenever a waiter observes completion, the record holds
\* its terminal state, the key is no longer in flight, and a successful
\* result is in the cache table.
C30_ObservedAfterCleanup ==
    [][\A g \in Reqs :
          Moves(g, "wait", "ret") /\ role'[g] = "waiter" =>
              /\ recs[myrec[g]].done
              /\ ret'[g].result = recs[myrec[g]].result
              /\ ret'[g].err = recs[myrec[g]].err
              /\ key[g] \notin DOMAIN inflight
              /\ ShouldStore(recs[myrec[g]].result, recs[myrec[g]].err) =>
                    /\ key[g] \in DOMAIN entries
                    /\ entries[key[g]].result = recs[myrec[g]].result
      ]_vars

\* C30 amended: in one critical section the leader records (result, error)
\* on its in-flight record, stores the entry if the fetch succeeded and
\* removes the in-flight entry; only afterwards, and exactly once, does it
\* fire the signal of the record, whose state never changes again.  So a
\* waiter that observes completion reads the terminal state of a record
\* that the in-flight table no longer holds; the key itself may be in
\* flight again under a new record, and the stored entry may be gone.
C30_SignalAfterCleanup ==
    [][/\ \A g \in Reqs :
             /\ Moves(g, "fetch", "notify") =>
                   /\ recs'[myrec[g]] = [done |-> FALSE, result |-> fres'[g].result,
                                         err |-> fres'[g].err]
                   /\ key[g] \notin DOMAIN inflight'
                   /\ ~Registered(myrec[g])'
                   /\ IF fres'[g].err = NoErr /\ fres'[g].result # Nil
                      THEN entries'[key[g]] = [result |-> fres'[g].result,
                                               expiresAt |-> now + TTL]
                      ELSE entries' = entries
             /\ Moves(g, "notify", "ret") =>
                   /\ ~recs[myrec[g]].done
                   /\ recs'[myrec[g]] = [done |-> TRUE, result |-> fres[g].result,
                                         err |-> fres[g].err]
                   /\ ~Registered(myrec[g])
                   /\ UNCHANGED <<entries, inflight>>
             /\ (role'[g] = "leader" /\ pc'[g] = "ret") => recs'[myrec'[g]].done
             /\ Moves(g, "wait", "ret") /\ role'[g] = "waiter" =>
                   /\ recs[myrec[g]].done
                   /\ ret'[g] = [result |-> recs[myrec[g]].result, hit |-> FALSE,
                                 err |-> recs[myrec[g]].err]
                   /\ ~Registered(myrec[g])
       /\ \A r \in 1..Len(recs) :
             /\ recs[r].done => recs'[r] = recs[r]
             /\ (recs'[r].done /\ ~recs[r].done) =>
                   \E g \in Reqs : role[g] = "leader" /\ myrec[g] = r
                                      /\ Moves(g, "notify", "ret")
      ]_vars

\* C30 witness: a waiter has observed the completion of a failed fetch
\* while its key was in flight again under a new record.
C30_Witness ==
    \E g \in Reqs :
        /\ role[g] = "waiter"
        /\ pc[g] = "ret"
        /\ recs[myrec[g]].done
        /\ ret[g].err = recs[myrec[g]].err
        /\ ret[g].err # NoErr
        /\ key[g] \in DOMAIN inflight
        /\ inflight[key[g]] # myrec[g]


\* ============================================ claims: the lock of the cache
\* a caller that has not arrived yet and is the next to arrive
Idle(h) == NextToArrive(h)

\* C31: the fetch thunk runs without c.mu held: while a leader's fetch on a
\* key is outstanding the mutex is free, so Invalidate, Clear and a pass of
\* the sweeper can run, a GetOrFetch on another key can run its first
\* critical section (to a hit, or to a fetch of its own), and a GetOrFetch
\* on the leader's key registers as a waiter on the leader's record.
C31_FetchOutsideLock ==
    \A g \in Reqs :
        pc[g] = "fetch" =>
            /\ CacheMutexFree
            /\ \A k \in Keys : ENABLED Invalidate(k)
            /\ ENABLED Clear
            /\ ENABLED CacheSweep
            /\ \A h \in Reqs : Idle(h) =>
                  /\ ENABLED (Call(h, key[g]) /\ role'[h] = "waiter"
                                 /\ myrec'[h] = myrec[g])
                  /\ ~ENABLED (Call(h, key[g]) /\ role'[h] # "waiter")
                  /\ \A k \in Keys \ {key[g]} :
                        NextKey(k) =>
                            ENABLED (Call(h, k) /\ role'[h] =
                                        (IF IsCached(k) THEN "hit"
                                         ELSE IF IsInflight(k) THEN "waiter"
                                         ELSE "leader"))

\* C31 witness: while the fetch on one key is outstanding, a caller on
\* that key waits, and a caller that arrived later on another key has led
\* a fetch of its own, stored its result and returned
C31_Witness ==
    \E g, h, i \in Reqs :
        /\ pc[g] = "fetch"
        /\ pc[h] = "wait" /\ myrec[h] = myrec[g]
        /\ g < i /\ key[i] # key[g] /\ role[i] = "leader" /\ pc[i] = "ret"
        /\ IsCached(key[i])


\* ============================================ claims: single-flight liveness
\* goroutine h waits on the record that g leads
WaitsOn(h, g) == pc[h] = "wait" /\ role[g] = "leader" /\ myrec[h] = myrec[g]

\* the signal of the record that goroutine g holds has fired
Signaled(g) == myrec[g] \in 1..Len(recs) /\ recs[myrec[g]].done

\* the leader of goroutine h's record has still to fire the signal
LeaderFetching(h) ==
    \E g \in Reqs : role[g] = "leader" /\ myrec[g] = myrec[h] /\ pc[g] = "fetch"

\* C32: once the thunk of a leader has returned (the leader has left its
\* second critical section), the signal of its record fires and every
\* waiter on the record returns, with the terminal state of the record or
\* with the cause of its own cancellation; the return of the thunk takes
\* the key out of the in-flight table; no waiter stays blocked on a record
\* whose signal has fired; and a caller only ever starts to wait on the
\* record that is in the table when it arrives, whose leader is still
\* fetching.
C32_WaitersEventuallyReturn ==
    /\ \A g \in Reqs : (pc[g] = "notify") ~> Signaled(g)
    /\ \A g, h \in Reqs :
          (pc[g] = "notify" /\ WaitsOn(h, g)) ~>
              /\ pc[h] = "ret"
              /\ \/ role[h] = "waiter" /\ ret[h] = [result |-> fres[g].result,
                                                    hit |-> FALSE, err |-> fres[g].err]
                 \/ role[h] = "gaveup" /\ ret[h] = [result |-> Nil, hit |-> FALSE,
                                                    err |-> "canceled"]
    /\ \A h \in Reqs : (pc[h] = "wait" /\ Signaled(h)) ~> (pc[h] = "ret")
    /\ [][\A g \in Reqs :
             /\ Moves(g, "fetch", "notify") => key[g] \notin DOMAIN inflight'
             /\ (pc[g] # "wait" /\ pc'[g] = "wait") =>
                   /\ key'[g] \in DOMAIN inflight
                   /\ myrec'[g] = inflight[key'[g]]
                   /\ ~recs[myrec'[g]].done
                   /\ LeaderFetching(g)'
       ]_vars

\* C32 witness: a leader has returned, one waiter on its record returned
\* with the record's terminal state and another with its own cancellation,
\* and the key is out of the in-flight table
C32_Witness ==
    \E g, h, i \in Reqs :
        /\ role[g] = "leader" /\ pc[g] = "ret"
        /\ role[h] = "waiter" /\ myrec[h] = myrec[g] /\ pc[h] = "ret"
        /\ ret[h] = [result |-> fres[g].result, hit |-> FALSE, err |-> fres[g].err]
        /\ role[i] = "gaveup" /\ myrec[i] = myrec[g] /\ pc[i] = "ret"
        /\ key[g] \notin DOMAIN inflight


\* ==================================================== claims: the sweepers
\* a pass of the cache sweeper that deleted something: the only step that
\* takes entries away and leaves the history of the fetches alone
CacheSweepRemoved ==
    /\ entries' # entries
    /\ resolved' = resolved
    /\ pc' = pc

\* C33: a pass of the cache sweeper deletes only entries whose expiresAt
\* has passed, none of which a read would treat as Cached; it changes no
\* other entry, leaves the in-flight table and its records alone, and so
\* leaves what a GetOrFetch on any key finds (Cached with which result,
\* in flight on which record, or absent) and what any call has returned
\* as they were.
C33_SweepUnobservable ==
    [][CacheSweepRemoved =>
          /\ \A k \in DOMAIN entries \ DOMAIN entries' :
                /\ entries[k].expiresAt < now
                /\ ~IsCached(k)
          /\ \A k \in DOMAIN entries' :
                k \in DOMAIN entries /\ entries'[k] = entries[k]
          /\ inflight' = inflight
          /\ recs' = recs
          /\ now' = now
          /\ \A k \in Keys :
                /\ IsCached(k)' = IsCached(k)
                /\ IsCached(k) => entries'[k].result = entries[k].result
                /\ IsInflight(k)' = IsInflight(k)
          /\ ret' = ret
      ]_vars

\* C33 witness: the sweeper has deleted the expired entry of a key that
\* was fetched successfully and never invalidated
C33_Witness ==
    \E k \in Keys :
        /\ k \in DOMAIN resolved
        /\ k \notin DOMAIN entries
        /\ now > resolved[k].at + TTL


\* what Allow(k) returns by the rule of the token bucket, from the bucket
\* map alone: a key without a bucket, or whose window has passed, has rate
\* tokens, any other has what its bucket holds
TokensFor(k) ==
    IF k \notin DOMAIN buckets \/ now - buckets[k].lastReset >= window
    THEN rate ELSE buckets[k].tokens

\* C34: once Close has closed the done channel of the cache or of the
\* limiter, its cleanup goroutine returns in the end; a goroutine that has
\* returned stays so and from then on no entry and no bucket is deleted by
\* a sweeper; and at every moment, before Close, after it and after the
\* sweeper stopped, Allow answers by the rule of the token bucket and
\* GetOrFetch by the state of the tables alone.
C34_CloseStopsSweeper ==
    /\ \A c \in Components : closed[c] ~> (sweeper[c] = "stopped")
    /\ [][/\ \A c \in Components :
                /\ closed[c] => closed'[c]
                /\ sweeper[c] = "stopped" => sweeper'[c] = "stopped"
                /\ sweeper'[c] = "stopped" => closed[c]
          /\ sweeper["cache"] = "stopped" => DOMAIN entries \subseteq DOMAIN entries'
          /\ sweeper["limiter"] = "stopped" => DOMAIN buckets \subseteq DOMAIN buckets'
          /\ last'.seq # last.seq =>
                /\ last'.ok = (TokensFor(last'.key) > 0)
                /\ buckets'[last'.key].tokens =
                      TokensFor(last'.key) - (IF last'.ok THEN 1 ELSE 0)
          /\ \A g \in Reqs :
                pc[g] = "idle" /\ pc'[g] # "idle" =>
                    LET k == key'[g] IN
                    IF k \in DOMAIN entries /\ now < entries[k].expiresAt
                    THEN /\ role'[g] = "hit"
                         /\ ret'[g] = [result |-> entries[k].result, hit |-> TRUE,
                                       err |-> NoErr]
                    ELSE IF k \in DOMAIN inflight
                    THEN role'[g] = "waiter" /\ myrec'[g] = inflight[k]
                    ELSE role'[g] = "leader" /\ inflight'[k] = myrec'[g]
       ]_vars

\* C34 witness: both sweepers have stopped, that of the cache with an
\* expired entry left in the table, and a caller that arrived afterwards on
\* the key of that entry became the leader of a new fetch
C34_Witness ==
    \E g \in Reqs :
        /\ \A c \in Components : sweeper[c] = "stopped"
        /\ role[g] = "leader" /\ pc[g] = "fetch"
        /\ key[g] \in DOMAIN entries
        /\ now > entries[key[g]].expiresAt


\* ============================================ claims: the provider errors
\* the providers of the fan-out led by g that returned an error and counted it
CountedOf(g) == {p \in Providers : fan[g][p] = "failed"}

\* the number of providers that returned an error to the call of Search
\* made for g and counted it: read off the goroutines while the call runs,
\* and off what Search returned afterwards (every provider failed if it
\* returned an error, else the ProvidersFailed of its result)
ErrorsOf(g) ==
    IF pc[g] = "fanout" THEN Cardinality(CountedOf(g))
    ELSE IF role[g] = "leader" /\ pc[g] \in {"notify", "ret"}
    THEN IF fres[g].result = Nil THEN Cardinality(Providers)
         ELSE heap[fres[g].result].failed
    ELSE 0

\* C35: provider_errors_total is the number of providers that returned an
\* error, summed over the calls of Search, whatever the interleaving of
\* concurrent calls: each provider goroutine that recorded an error adds
\* one, once, before Search returns, so that when a call returns the
\* counter holds its whole share (its `failed`); the counter never
\* decreases.
C35_ErrorsCountedOnce ==
    /\ [](metrics.providerErrors = SumOver([g \in Reqs |-> ErrorsOf(g)], Reqs))
    /\ [][/\ metrics'.providerErrors >= metrics.providerErrors
          /\ metrics'.providerErrors # metrics.providerErrors =>
                /\ metrics'.providerErrors = metrics.providerErrors + 1
                /\ \E g \in Reqs : \E p \in Providers :
                      /\ fan[g][p] = "counting" /\ fan'[g][p] = "failed"
                      /\ \A h \in Reqs : \A q \in Providers :
                            <<h, q>> # <<g, p>> => fan'[h][q] = fan[h][q]
          /\ \A g \in Reqs :
                Moves(g, "fanout", "notify") =>
                    /\ agg[g].failed = Cardinality(CountedOf(g))
                    /\ agg[g].succeeded + agg[g].failed = Cardinality(Providers)
                    /\ ErrorsOf(g)' = agg[g].failed
       ]_vars

\* C35 witness: one call of Search has returned a result with one failed
\* provider while another call, running at the same time, has counted one
\* error and has still to count a second one
C35_Witness ==
    \E g, h \in Reqs :
        /\ role[g] = "leader" /\ pc[g] = "ret"
        /\ fres[g].result # Nil /\ heap[fres[g].result].failed = 1
        /\ pc[h] = "fanout"
        /\ \E p, q \in Providers : fan[h][p] = "failed" /\ fan[h][q] = "counting"
        /\ metrics.providerErrors = 2


\* ============================================= claims: Invalidate and Clear
\* C36: Invalidate and Clear take entries out of the cache table and
\* nothing else: the in-flight table and its records are changed by steps
\* of GetOrFetch only.  So a leader whose key was invalidated (or the cache
\* cleared) while its fetch was in flight still stores its result when the
\* fetch succeeds, and a GetOrFetch that arrives within the ttl of that
\* entry is a hit on it.
C36_InvalidateKeepsInflight ==
    [][/\ pc' = pc => inflight' = inflight /\ recs' = recs
       /\ purged' # purged =>
             /\ pc' = pc
             /\ DOMAIN entries' \subseteq DOMAIN entries
             /\ \A k \in DOMAIN entries' : entries'[k] = entries[k]
       /\ \A g \in Reqs :
             /\ (myrec[g] \in purged /\ Moves(g, "fetch", "notify")
                    /\ fres'[g].err = NoErr /\ fres'[g].result # Nil) =>
                   entries'[key[g]] = [result |-> fres'[g].result,
                                       expiresAt |-> now + TTL]
             /\ (Moves(g, "idle", "ret") /\ key'[g] \in DOMAIN entries
                    /\ now < entries[key'[g]].expiresAt) =>
                   ret'[g] = [result |-> entries[key'[g]].result, hit |-> TRUE,
                              err |-> NoErr]
      ]_vars

\* C36 witness: a GetOrFetch was a hit on the result of a fetch during
\* which the key was invalidated or the cache cleared
C36_Witness ==
    \E g, h \in Reqs :
        /\ role[g] = "leader" /\ myrec[g] \in purged /\ pc[g] = "ret"
        /\ role[h] = "hit" /\ key[h] = key[g]
        /\ ret[h] = [result |-> fres[g].result, hit |-> TRUE, err |-> NoErr]
        /\ fres[g].result = myrec[g]


\* ========================================= claims: the limiter's sweeper
\* A limiter in which the sweeper never runs, replayed on the calls made so
\* far: its bucket for key k after the calls of the times up to t (none
\* when its `at` is -1), and how many of the calls of time t it granted.
NoBucket == [tokens |-> 0, lastReset |-> 0, at |-> -1]

RECURSIVE TwinBucket(_, _)
TwinBucket(k, t) ==
    IF t < 0 THEN NoBucket
    ELSE LET prev == TwinBucket(k, t - 1)
             open == IF prev.at = -1 \/ t - prev.lastReset >= window
                     THEN [tokens |-> rate, lastReset |-> t, at |-> t]
                     ELSE prev
             granted == Min(calls[k][t], Max(open.tokens, 0))
         IN  IF calls[k][t] = 0 THEN prev
             ELSE [open EXCEPT !.tokens = @ - granted]

TwinGrants(k, t) ==
    LET prev == TwinBucket(k, t - 1)
        tokens == IF prev.at = -1 \/ t - prev.lastReset >= window
                  THEN rate ELSE prev.tokens
    IN  Min(calls[k][t], Max(tokens, 0))

\* what the next Allow(k), made at time t, would find in the twin
TwinTokensAt(k, t) ==
    LET b == TwinBucket(k, now)
    IN  IF b.at = -1 \/ t - b.lastReset >= window THEN rate ELSE b.tokens

\* what the next Allow(k), made at time t, would find in the limiter
TokensAt(k, t) ==
    IF k \notin DOMAIN buckets \/ t - buckets[k].lastReset >= window
    THEN rate ELSE buckets[k].tokens

\* C37: with a positive window the sweeper deletes a bucket only when its
\* lastReset is more than 2 x window old, and what it deletes is never
\* missed: whenever and however often it ran, the limiter has granted, key
\* by key and instant by instant, what a limiter without a sweeper grants
\* for the same calls, and it will answer the next Allow on any key, now or
\* later, as that limiter would.
C37_ReclaimUnobservable ==
    /\ [](window > 0 =>
            \A k \in Clients :
                /\ \A t \in 0..now : grants[k][t] = TwinGrants(k, t)
                /\ \A t \in now..MaxTime : TokensAt(k, t) = TwinTokensAt(k, t))
    /\ [][\A k \in DOMAIN buckets \ DOMAIN buckets' :
              /\ now - buckets[k].lastReset > 2 * window
              /\ calls' = calls
              /\ \A j \in DOMAIN buckets' : buckets'[j] = buckets[j]
       ]_vars

\* C37 witness: the bucket of one key has been reclaimed, and an Allow on
\* another key, which was denied more than 2 x window ago, was granted from
\* a fresh window
C37_Witness ==
    \E k \in Clients : \E t \in 0..now :
        /\ window > 0 /\ rate > 0
        /\ calls[k][t] > grants[k][t]
        /\ now - t > 2 * window
        /\ last.key = k /\ last.at = now /\ last.ok /\ last.refilled
        /\ \E j \in Clients : j # k /\ SumOver(calls[j], Times) > 0
                                 /\ j \notin DOMAIN buckets


\* ============================================ claims: tokens and requests
\* C38: the arrival of a /search request is the only step that changes a
\* bucket, and it changes that of the request's identity alone: a request
\* that finds a token (by the rule of the bucket) takes exactly one, before
\* it is validated and before the cache is consulted, and nothing that
\* happens to it later (400, hit, wait, 200 or 500) gives the token back
\* or takes another; a request that finds none is answered 429 and takes
\* none.
C38_AdmittedTakesOneToken ==
    [][/\ \A g \in Reqs :
             Moves(g, "idle", pc'[g]) /\ pc'[g] # "idle" =>
                 LET ip == client'[g] IN
                 /\ \A k \in DOMAIN buckets' \ {ip} :
                       k \in DOMAIN buckets /\ buckets'[k] = buckets[k]
                 /\ pc'[g] \in {"ret", "enter"}
                 /\ role'[g] = "none"
                 /\ UNCHANGED <<cacheVars, fan, agg, heap>>
                 /\ IF TokensFor(ip) > 0
                    THEN /\ buckets'[ip].tokens = TokensFor(ip) - 1
                         /\ resp'[g].status # 429
                         /\ pc'[g] = "ret" => resp'[g].status = 400
                    ELSE /\ buckets'[ip].tokens = TokensFor(ip)
                         /\ resp'[g].status = 429
                         /\ pc'[g] = "ret"
       /\ buckets' # buckets => \E g \in Reqs : pc[g] = "idle" /\ pc'[g] # "idle"
      ]_vars

\* C38 witness: a request that failed validation has used up the token of
\* its identity, and a second request of that identity was answered 429
C38_Witness ==
    \E g, h \in Reqs :
        /\ resp[g].status = 400
        /\ client[h] = client[g] /\ resp[h].status = 429
        /\ buckets[client[g]].tokens = 0


\* ========================================== claims: contexts already done
\* the context of g was done when it called GetOrFetch: outside a wait a
\* context is only canceled before the call
CanceledAtCall(g) == ctx[g] = "canceled" /\ pc[g] = "idle"

\* C39: GetOrFetch looks at the caller's context in the waiter's select and
\* nowhere else.  A caller whose context is done when it calls is a hit on
\* a Cached key, a waiter (which may then return the cause of its context)
\* on a key in flight, and otherwise the leader: its thunk runs, the second
\* critical section stores the result of a successful fetch, and the leader
\* returns what the thunk returned.  Only a goroutine that waited ever
\* returns the cause of its context.
C39_ContextOnlyWhileWaiting ==
    [][\A g \in Reqs :
          /\ (CanceledAtCall(g) /\ pc'[g] # "idle") =>
                LET k == key'[g] IN
                IF k \in DOMAIN entries /\ now < entries[k].expiresAt
                THEN /\ pc'[g] = "ret" /\ role'[g] = "hit"
                     /\ ret'[g] = [result |-> entries[k].result, hit |-> TRUE,
                                   err |-> NoErr]
                ELSE IF k \in DOMAIN inflight
                THEN pc'[g] = "wait" /\ role'[g] = "waiter"
                        /\ myrec'[g] = inflight[k]
                ELSE /\ pc'[g] = "fetch" /\ role'[g] = "leader"
                     /\ k \in DOMAIN inflight' /\ inflight'[k] = myrec'[g]
          /\ (pc[g] = "fetch" /\ pc'[g] # "fetch") =>
                /\ pc'[g] = "notify"
                /\ recs'[myrec[g]].result = fres'[g].result
                /\ recs'[myrec[g]].err = fres'[g].err
                /\ (fres'[g].err = NoErr /\ fres'[g].result # Nil) =>
                      entries'[key[g]] = [result |-> fres'[g].result,
                                          expiresAt |-> now + TTL]
          /\ (pc[g] = "notify" /\ pc'[g] # "notify") =>
                /\ pc'[g] = "ret"
                /\ ret'[g] = [result |-> fres[g].result, hit |-> FALSE,
                              err |-> fres[g].err]
          /\ (pc'[g] = "ret" /\ ret'[g].err = "canceled") =>
                role'[g] = "gaveup" /\ pc[g] \in {"wait", "ret"}
      ]_vars

\* C39 witness: a caller whose context was done when it called has led a
\* successful fetch to the end, and another such caller was a hit on the
\* entry it stored
C39_Witness ==
    \E g, h \in Reqs :
        /\ ctx[g] = "canceled" /\ role[g] = "leader" /\ pc[g] = "ret"
        /\ ret[g] = [result |-> myrec[g], hit |-> FALSE, err |-> NoErr]
        /\ ctx[h] = "canceled" /\ role[h] = "hit" /\ key[h] = key[g]
        /\ ret[h] = [result |-> myrec[g], hit |-> TRUE, err |-> NoErr]

\* the contiguous pieces of a text, the empty one included
Pieces(str) == {<<>>} \cup {SubSeq(str, a, b) : a, b \in 1..Len(str)}

\* the trimmed first comma-separated entry of a header value
EntryOf(value) == CHOOSE ip \in Pieces(value) : FirstEntry(value, ip)

\* the host of the peer a request came from
PeerOf(r) == CHOOSE ip \in Pieces(r.remote) : PeerHost(r.remote, ip)

\* C40: the rate-limit identity is the first X-Forwarded-For entry when the
\* header is present. Of two consecutive requests that carry the header, two
\* from the same peer with different first entries are charged to different
\* buckets, so that both are admitted although together they exceed the rate
\* of the window; two from different peers with the same first entry are
\* charged to one bucket, so that the second finds the token of the first
\* gone.
C40_HeaderNamesBucket ==
    (hcount >= 2 /\ hprev.req.xff # <<>> /\ hreq.xff # <<>>) =>
        LET a == EntryOf(hprev.req.xff)
            b == EntryOf(hreq.xff)
        IN  /\ hprev.out.ip = a
            /\ hout.ip = b
            /\ {a, b} \subseteq DOMAIN buckets
            /\ (hprev.req.remote = hreq.remote /\ a # b) =>
                  /\ hout.ip # hprev.out.ip
                  /\ hcount = 2 =>
                        /\ hprev.out.status # 429 /\ hout.status # 429
                        /\ buckets[a].tokens = rate - 1
                        /\ buckets[b].tokens = rate - 1
                        /\ hcount > rate
            /\ (PeerOf(hprev.req) # PeerOf(hreq) /\ a = b) =>
                  /\ hout.ip = hprev.out.ip
                  /\ hcount = 2 =>
                        /\ hprev.out.status # 429
                        /\ hout.status = 429 <=> rate < 2
                        /\ buckets[a].tokens = IF rate < 2 THEN 0 ELSE rate - 2

\* C40 witness: two requests from one peer address, the first naming
\* 1.1.1.1 and the second 3.3.3.3 in X-Forwarded-For, were both admitted
\* in one window of rate 1.
C40_Witness ==
    /\ hcount = 2
    /\ rate = 1
    /\ hprev.req.remote = hreq.remote
    /\ hprev.req.xff # <<>> /\ hreq.xff # <<>>
    /\ hprev.out.ip = <<"1", ".", "1", ".", "1", ".", "1">>
    /\ hout.ip = <<"3", ".", "3", ".", "3", ".", "3">>
    /\ hprev.out.status # 429 /\ hout.status # 429

====
